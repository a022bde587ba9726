-------------------------- MODULE PlanEval_proofs --------------------------
(***************************************************************************)
(* What the gates of `iw apply` let through, for every plan, policy,       *)
(* attestation and combination of overrides.                               *)
(***************************************************************************)
EXTENDS PlanEval, TLAPS

\* The nine action sequences of the contract, told apart by their actions.
LEMMA SupportedActions ==
  ASSUME NEW c, c.actions \in SupportedActionSequences
  PROVE  /\ OnlyNoOp(c) <=> c.actions = <<"no-op">>
         /\ HasAction(c, "update") <=> c.actions = <<"update">>
         /\ Deletes(c) <=> HasAction(c, "delete")
         /\ Deletes(c) => /\ ~OnlyNoOp(c) /\ ~HasAction(c, "update")
                          /\ c.actions # <<"create">>
  <1>1. CASE c.actions \in {<<"no-op">>, <<"create">>, <<"read">>, <<"update">>, <<"delete">>,
                            <<"forget">>}
    BY <1>1 DEF OnlyNoOp, HasAction, Deletes
  <1>2. CASE c.actions \in {<<"delete", "create">>, <<"create", "delete">>,
                            <<"create", "forget">>}
    BY <1>2 DEF OnlyNoOp, HasAction, Deletes
  <1> QED BY <1>1, <1>2 DEF SupportedActionSequences

\* An update that only its sets' order explains moves nothing.
LEMMA ExplainedMovesNothing ==
  ASSUME NEW c, UpdatePaths(c) = {OpaqueUpdate}, c.unknown = {}, ExplainedBySetEquality(c),
         c.identity \in BOOLEAN, c.sensitivity \in BOOLEAN
  PROVE  SameMeaning(c)
  <1>1. ~c.identity
    <2> SUFFICES ASSUME c.identity PROVE FALSE
      OBVIOUS
    <2>1. IdentityChange \in UpdatePaths(c)
      BY DEF UpdatePaths
    <2> QED BY <2>1 DEF IdentityChange, OpaqueUpdate
  <1>2. ~c.sensitivity
    <2> SUFFICES ASSUME c.sensitivity PROVE FALSE
      OBVIOUS
    <2>1. SensitivityChange \in UpdatePaths(c)
      BY DEF UpdatePaths
    <2> QED BY <2>1 DEF SensitivityChange, OpaqueUpdate
  <1>3. ASSUME NEW a \in Attrs, c.before[a] # c.after[a]
        PROVE  /\ a \in SetAttrs
               /\ c.before[a] # Null /\ c.after[a] # Null
               /\ ~HasPlaceholder(c.before[a]) /\ ~HasPlaceholder(c.after[a])
               /\ \A m \in Scalars : Occurrences(m, c.before[a]) = Occurrences(m, c.after[a])
    <2>1. a \in SetAttrs /\ SameMembership(c.before[a], c.after[a])
          /\ c.before[a] # Null /\ c.after[a] # Null
      BY <1>3 DEF ExplainedBySetEquality
    <2>2. MultisetDelta(c.before[a], c.after[a]) = {}
      BY <2>1 DEF SameMembership
    <2>3. \A m \in Scalars : Occurrences(m, c.before[a]) = Occurrences(m, c.after[a])
      BY <2>2 DEF MultisetDelta
    <2> QED BY <2>1, <2>3 DEF SameMembership
  <1> QED BY <1>1, <1>2, <1>3 DEF SameMeaning

\* A record that is not blocked does nothing that needs consent.
LEMMA UnblockedIsHarmless ==
  ASSUME NEW c, NEW policy, c.actions \in SupportedActionSequences,
         c.identity \in BOOLEAN, c.sensitivity \in BOOLEAN,
         Blocked \notin ClassifyChange(c, policy)
  PROVE  Harmless(c, policy)
  <1>1. CASE OnlyNoOp(c) \/ ImportingCreate(c)
    BY <1>1 DEF Harmless, ImportingCreate
  <1>2. CASE ~OnlyNoOp(c) /\ ~ImportingCreate(c)
    <2>1. HasAction(c, "update")
      BY <1>2 DEF ClassifyChange
    <2>2. c.actions = <<"update">>
      BY <2>1, SupportedActions
    <2>3. CASE UpdatePaths(c) = {OpaqueUpdate} /\ c.unknown = {} /\ ExplainedBySetEquality(c)
      BY <2>2, <2>3, ExplainedMovesNothing DEF Harmless
    <2>4. CASE ~(UpdatePaths(c) = {OpaqueUpdate} /\ c.unknown = {} /\ ExplainedBySetEquality(c))
      <3>1. policy # Null /\ UpdatePaths(c) \subseteq policy
        BY <1>2, <2>1, <2>4 DEF ClassifyChange
      <3> QED BY <2>2, <3>1 DEF Harmless
    <2> QED BY <2>3, <2>4
  <1> QED BY <1>1, <1>2

\* A record that deletes is blocked, whatever the policy.
LEMMA DeleteIsBlocked ==
  ASSUME NEW c, NEW policy, c.actions \in SupportedActionSequences, Deletes(c)
  PROVE  Blocked \in ClassifyChange(c, policy)
  <1>1. ~OnlyNoOp(c) /\ ~ImportingCreate(c) /\ ~HasAction(c, "update")
    BY SupportedActions DEF ImportingCreate
  <1> QED BY <1>1 DEF ClassifyChange

RecordsTyped(plan) ==
    \A c \in plan.changes \cup plan.drift : c.identity \in BOOLEAN /\ c.sensitivity \in BOOLEAN

\* A plan is classified Blocked exactly when one of its statuses is.
LEMMA BlockedPlan ==
  ASSUME NEW plan, NEW policy, NEW tolerate \in BOOLEAN
  PROVE  ClassifyPlan(plan, policy, Null, tolerate) = Blocked
           <=> \/ \E c \in plan.changes : Blocked \in ClassifyChange(c, policy)
               \/ ~tolerate /\ \E c \in plan.drift : Blocked \in ClassifyChange(c, policy)
  <1> DEFINE found == FindingStatuses(plan, policy, Null, tolerate)
  <1>1. Blocked # Tolerated /\ Blocked # Clean
    BY DEF Blocked, Tolerated, Clean
  <1>2. ClassifyPlan(plan, policy, Null, tolerate) = Blocked <=> Blocked \in found
    BY <1>1 DEF ClassifyPlan
  <1>3. Blocked \in found
           <=> \/ \E c \in plan.changes : Blocked \in ClassifyChange(c, policy)
               \/ ~tolerate /\ \E c \in plan.drift : Blocked \in ClassifyChange(c, policy)
    BY <1>1 DEF FindingStatuses, InScope
  <1> QED BY <1>2, <1>3

\* What passes the gates is consented to: nothing is destroyed without
\* --allow-destroy, and without --allow-plan-changes nothing happens beyond
\* imports, no-ops, updates that move nothing and those the policy names;
\* refresh drift beyond that passes only next to an import-only plan; and an
\* incomplete plan only imports (applyExactPlanRoot).
THEOREM GatedIsConsented ==
  ASSUME NEW plan, NEW policy, NEW attested, NEW allowDestroy \in BOOLEAN,
         NEW allowPlanChanges \in BOOLEAN, RecordsTyped(plan),
         ApplyGate(plan, policy, attested, allowDestroy, allowPlanChanges)
  PROVE  Consented(plan, policy, allowDestroy, allowPlanChanges)
  <1>1. \A c \in plan.changes \cup plan.drift : c.actions \in SupportedActionSequences
    BY DEF ApplyGate, ValidateAssessmentPlan, ValidChangeRecord
  <1>2. allowDestroy \/ \A c \in plan.changes \cup plan.drift : ~Deletes(c)
    <2> SUFFICES ASSUME NEW c \in plan.changes \cup plan.drift, Deletes(c)
                 PROVE  allowDestroy
      OBVIOUS
    <2>1. ExactApplyDestroys(plan)
      BY <1>1, SupportedActions DEF ExactApplyDestroys
    <2>2. ClassifyPlan(plan, policy, Null, FALSE) = Blocked
      BY <1>1, BlockedPlan, DeleteIsBlocked
    <2> QED BY <2>1, <2>2 DEF ApplyGate
  <1>3. ASSUME ~allowPlanChanges
        PROVE  /\ \A c \in plan.changes : Harmless(c, policy)
               /\ ImportsOnly(plan) \/ \A c \in plan.drift : Harmless(c, policy)
    <2>1. ImportOnlyPlanShape(plan) \in BOOLEAN
      BY DEF ImportOnlyPlanShape
    <2>2. ApplyClassification(plan, policy) # Blocked
      BY <1>3 DEF ApplyGate
    <2>3. /\ \A c \in plan.changes : Blocked \notin ClassifyChange(c, policy)
          /\ ImportOnlyPlanShape(plan)
               \/ \A c \in plan.drift : Blocked \notin ClassifyChange(c, policy)
      BY <2>1, <2>2, BlockedPlan DEF ApplyClassification
    <2>4. ImportOnlyPlanShape(plan) => ImportsOnly(plan)
      BY DEF ImportOnlyPlanShape, ImportsOnly
    <2> QED BY <1>1, <2>3, <2>4, UnblockedIsHarmless DEF RecordsTyped
  <1>4. plan.complete \/ ImportsOnly(plan)
    <2>1. plan.complete \/ ImportOnlyPlanShape(plan)
      BY DEF ApplyGate, TypedComplete, AcceptIncompleteTargetedImportOnlyPlan
    <2> QED BY <2>1 DEF ImportOnlyPlanShape, ImportsOnly
  <1> QED BY <1>2, <1>3, <1>4 DEF Consented

\* A record whose only finding is clean is harmless without any policy.
LEMMA CleanIsHarmless ==
  ASSUME NEW c, NEW policy, c.actions \in SupportedActionSequences,
         c.identity \in BOOLEAN, c.sensitivity \in BOOLEAN,
         ClassifyChange(c, policy) \subseteq {Clean}
  PROVE  Harmless(c, Null)
  <1>0. Clean # Blocked /\ Clean # Tolerated
    BY DEF Clean, Blocked, Tolerated
  <1>1. CASE OnlyNoOp(c) \/ ImportingCreate(c)
    BY <1>1 DEF Harmless, ImportingCreate
  <1>2. CASE ~OnlyNoOp(c) /\ ~ImportingCreate(c)
    <2>1. HasAction(c, "update")
      BY <1>0, <1>2 DEF ClassifyChange
    <2>2. c.actions = <<"update">>
      BY <2>1, SupportedActions
    <2>3. UpdatePaths(c) = {OpaqueUpdate} /\ c.unknown = {} /\ ExplainedBySetEquality(c)
      BY <1>0, <1>2, <2>1 DEF ClassifyChange
    <2> QED BY <2>2, <2>3, ExplainedMovesNothing DEF Harmless
  <1> QED BY <1>1, <1>2

\* A policy blocks nothing that is let through without one.
LEMMA PolicyOnlyTolerates ==
  ASSUME NEW c, NEW policy, Blocked \in ClassifyChange(c, policy)
  PROVE  Blocked \in ClassifyChange(c, Null)
  <1>1. Blocked # Tolerated /\ Blocked # Clean
    BY DEF Blocked, Tolerated, Clean
  <1> QED BY <1>1 DEF ClassifyChange

\* What assert-clean accepts without a policy, apply does not refuse, whatever policy it
\* loads and without any override: the completeness and the classification of the two
\* commands agree (ValidateAssessmentPlan, requireExactApplyTypedComplete).
THEOREM AssertedCleanIsApplicable ==
  ASSUME NEW plan, NEW policy, NEW attested, ValidateAssessmentPlan(plan, attested, Null),
         ClassifyPlan(plan, Null, Null, FALSE) # Blocked
  PROVE  ApplyGate(plan, policy, attested, FALSE, FALSE)
  <1>1. TypedComplete(plan, attested)
    BY DEF ValidateAssessmentPlan, AcceptIncompleteTargetedPostImportPlan, TypedComplete
  <1>2. \A c \in plan.changes \cup plan.drift : Blocked \notin ClassifyChange(c, Null)
    BY BlockedPlan
  <1>3. \A c \in plan.changes \cup plan.drift : Blocked \notin ClassifyChange(c, policy)
    BY <1>2, PolicyOnlyTolerates
  <1>4. ImportOnlyPlanShape(plan) \in BOOLEAN
    BY DEF ImportOnlyPlanShape
  <1>5. /\ ClassifyPlan(plan, policy, Null, FALSE) # Blocked
        /\ ApplyClassification(plan, policy) # Blocked
    BY <1>3, <1>4, BlockedPlan DEF ApplyClassification
  <1> QED BY <1>1, <1>5 DEF ApplyGate

\* An update is cleared outright only when no value of it moved: a lossy comparison of
\* numbers, a placeholder or an unknown never clears a record (classifyChange,
\* explainedBySetEquality, multisetDelta).
THEOREM ClearedUpdateIsUnchanged ==
  ASSUME NEW c, c.actions = <<"update">>, ClassifyChange(c, Null) = {Clean},
         c.identity \in BOOLEAN, c.sensitivity \in BOOLEAN
  PROVE  SameMeaning(c)
  <1>1. Clean # Blocked
    BY DEF Clean, Blocked
  <1>2. c.actions \in SupportedActionSequences
    BY DEF SupportedActionSequences
  <1>3. ~OnlyNoOp(c) /\ ~ImportingCreate(c) /\ HasAction(c, "update")
    BY <1>2, SupportedActions DEF ImportingCreate
  <1>4. UpdatePaths(c) = {OpaqueUpdate} /\ c.unknown = {} /\ ExplainedBySetEquality(c)
    BY <1>1, <1>3 DEF ClassifyChange
  <1> QED BY <1>4, ExplainedMovesNothing

\* What the status of a plan says of its records in scope; drift that is
\* tolerated by request is not spoken for.
LEMMA JudgedPlan ==
  ASSUME NEW plan, NEW policy, NEW scope, NEW tolerate \in BOOLEAN, RecordsTyped(plan),
         \A c \in plan.changes \cup plan.drift : c.actions \in SupportedActionSequences
  PROVE  LET status == ClassifyPlan(plan, policy, scope, tolerate)
         IN  /\ status \in {Clean, Tolerated, Blocked}
             /\ status = Clean =>
                  \A c \in plan.changes \cup plan.drift : InScope(c, scope) => Harmless(c, Null)
             /\ status = Tolerated =>
                  /\ \A c \in plan.changes : InScope(c, scope) => Harmless(c, policy)
                  /\ tolerate \/ \A c \in plan.drift : InScope(c, scope) => Harmless(c, policy)
  <1> DEFINE found == FindingStatuses(plan, policy, scope, tolerate)
             status == ClassifyPlan(plan, policy, scope, tolerate)
  <1>0. Blocked # Tolerated /\ Blocked # Clean /\ Tolerated # Clean
    BY DEF Blocked, Tolerated, Clean
  <1>1. /\ status \in {Clean, Tolerated, Blocked}
        /\ status = Clean => Blocked \notin found /\ Tolerated \notin found
        /\ status = Tolerated => Blocked \notin found
    BY <1>0 DEF ClassifyPlan
  <1>2. ASSUME NEW c
        PROVE  ClassifyChange(c, policy) \subseteq {Clean, Tolerated, Blocked}
    BY DEF ClassifyChange
  <1>3. \A c \in plan.changes : InScope(c, scope) => ClassifyChange(c, policy) \subseteq found
    BY DEF FindingStatuses
  <1>4. ASSUME NEW c \in plan.drift, InScope(c, scope)
        PROVE  /\ Tolerated \in ClassifyChange(c, policy) => Tolerated \in found
               /\ Blocked \in ClassifyChange(c, policy)
                    => IF tolerate THEN Tolerated \in found ELSE Blocked \in found
    BY <1>0, <1>4 DEF FindingStatuses
  <1>5. ASSUME status = Clean, NEW c \in plan.changes \cup plan.drift, InScope(c, scope)
        PROVE  Harmless(c, Null)
    <2>1. ClassifyChange(c, policy) \subseteq {Clean}
      BY <1>1, <1>2, <1>3, <1>4, <1>5
    <2> QED BY <2>1, CleanIsHarmless DEF RecordsTyped
  <1>6. ASSUME status = Tolerated
        PROVE  /\ \A c \in plan.changes : InScope(c, scope) => Harmless(c, policy)
               /\ tolerate \/ \A c \in plan.drift : InScope(c, scope) => Harmless(c, policy)
    <2>1. /\ \A c \in plan.changes : InScope(c, scope) => Blocked \notin ClassifyChange(c, policy)
          /\ tolerate
               \/ \A c \in plan.drift : InScope(c, scope) => Blocked \notin ClassifyChange(c, policy)
      BY <1>1, <1>3, <1>4, <1>6
    <2> QED BY <2>1, UnblockedIsHarmless DEF RecordsTyped
  <1> QED BY <1>1, <1>5, <1>6

\* An incomplete plan is valid only as the import of exactly the attested
\* targets or as a plan without effect on exactly those in scope.
LEMMA ValidTargets ==
  ASSUME NEW plan, NEW attested, NEW scope, ValidateAssessmentPlan(plan, attested, scope),
         ~plan.complete
  PROVE  /\ attested # Null
         /\ \/ ImportsOnly(plan) /\ attested.targets = ImportingAddresses(plan)
            \/ /\ scope # Null /\ attested.targets = scope
               /\ \A c \in plan.changes : OnlyNoOp(c)
  <1>1. CASE AcceptIncompleteTargetedImportOnlyPlan(plan, attested)
    BY <1>1 DEF AcceptIncompleteTargetedImportOnlyPlan, ImportOnlyPlanShape, ImportsOnly
  <1>2. CASE AcceptIncompleteTargetedPostImportPlan(plan, attested, scope)
    <2>1. \A c \in plan.changes : OnlyNoOp(c)
      BY <1>2 DEF AcceptIncompleteTargetedPostImportPlan, OnlyNoOp
    <2> QED BY <1>2, <2>1 DEF AcceptIncompleteTargetedPostImportPlan
  <1> QED BY <1>1, <1>2 DEF ValidateAssessmentPlan

\* assert-clean scoped to the staged imports never accepts an incomplete plan that still
\* has a resource to write, and never hides refresh drift of an address in its scope
\* (AcceptIncompleteTargetedPostImportPlan, ClassifyPlanWithOptions).
THEOREM ScopedAssertHidesNoDrift ==
  ASSUME NEW plan, NEW attested, NEW scope, RecordsTyped(plan), ~plan.complete,
         ~AcceptIncompleteTargetedImportOnlyPlan(plan, attested),
         ValidateAssessmentPlan(plan, attested, scope),
         ClassifyPlan(plan, Null, scope, FALSE) # Blocked
  PROVE  /\ \A c \in plan.changes : OnlyNoOp(c)
         /\ \A c \in plan.drift : c.address \in scope => Harmless(c, Null)
  <1>1. AcceptIncompleteTargetedPostImportPlan(plan, attested, scope)
    BY DEF ValidateAssessmentPlan
  <1>2. \A c \in plan.changes : OnlyNoOp(c)
    BY <1>1 DEF AcceptIncompleteTargetedPostImportPlan, OnlyNoOp
  <1>3. \A c \in plan.changes \cup plan.drift : c.actions \in SupportedActionSequences
    BY DEF ValidateAssessmentPlan, ValidChangeRecord
  <1>4. \A c \in plan.drift : InScope(c, scope) => Harmless(c, Null)
    BY <1>3, JudgedPlan
  <1> QED BY <1>2, <1>4 DEF InScope
=============================================================================
