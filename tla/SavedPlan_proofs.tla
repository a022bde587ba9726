-------------------------- MODULE SavedPlan_proofs --------------------------
(***************************************************************************)
(* What holds of SavedPlan for every workspace: any roots, contents,       *)
(* options and bounds.                                                     *)
(***************************************************************************)
EXTENDS SavedPlan, TLAPS

ConstantRoots == \A i \in 1..Len(Order) : Order[i] \in Roots

LEMMA OrderInRoots == Len(Order) \in Nat /\ ConstantRoots
  BY SavedPlanAssumption DEF ConstantRoots, Roots

\* Changing the inputs of some roots keeps their type.
LEMMA ChangeInputsType ==
  ASSUME SPTypeOK, NEW R \in SUBSET Roots, NEW new \in [Roots -> Fingerprints],
         ChangeInputs(R, new)
  PROVE  inputs' \in [Roots -> Fingerprints] /\ epoch' \in [Roots -> Nat]
  BY DEF ChangeInputs, SPTypeOK

LEMMA TerraformInitType ==
  ASSUME SPTypeOK, NEW r \in Roots, TerraformInit(r)
  PROVE  inputs' \in [Roots -> Fingerprints] /\ epoch' \in [Roots -> Nat]
  <1>1. CASE inputs[r].lock = Null
    <2>1. PICK c \in Contents : ChangeInputs({r}, [inputs EXCEPT ![r].lock = c])
      BY <1>1 DEF TerraformInit
    <2>2. [inputs EXCEPT ![r].lock = c] \in [Roots -> Fingerprints]
      BY DEF SPTypeOK, Fingerprints
    <2> QED BY <2>1, <2>2, ChangeInputsType
  <1>2. CASE inputs[r].lock # Null
    BY <1>2 DEF TerraformInit, SPTypeOK
  <1> QED BY <1>1, <1>2

LEMMA GotoType ==
  ASSUME SPTypeOK, NEW p \in Planners, NEW pc \in PlannerPCs, Goto(p, pc),
         pl[p].pc \notin {"idle", "root", "done", "failed"},
         pc \in {"refConfirm", "plan"} /\ pl[p].save => pl[p].fp \in Fingerprints,
         pc \in {"sha", "attest", "fpCheck", "isFile", "sources"}
            => pl[p].save /\ pl[p].fp \in Fingerprints,
         pc = "attest" => pl[p].sha \in Nat
  PROVE  pl' \in [Planners -> PlannerStates]
  <1> DEFINE s == [pl[p] EXCEPT !.pc = pc]
  <1>1. pl[p] \in PlannerFields /\ pl[p].i \in 1..Len(Order)
    BY OrderInRoots DEF SPTypeOK, PlannerStates
  <1>2. s \in PlannerFields
    BY <1>1 DEF PlannerFields
  <1>3. /\ s.pc = pc /\ s.i = pl[p].i /\ s.save = pl[p].save
        /\ s.fp = pl[p].fp /\ s.sha = pl[p].sha
    BY <1>1 DEF PlannerFields
  <1>4. s \in PlannerStates
    <2> HIDE DEF s
    <2> QED BY <1>1, <1>2, <1>3, OrderInRoots DEF PlannerStates
  <1> QED BY <1>4 DEF SPTypeOK, Goto

LEMMA PlannerIdleType == PlannerIdle \in PlannerStates
  <1>1. PlannerIdle \in PlannerFields
    BY DEF PlannerIdle, PlannerFields, PlannerPCs, Targets
  <1> QED BY <1>1, OrderInRoots DEF PlannerIdle, PlannerStates

LEMMA FailsType ==
  ASSUME SPTypeOK, NEW p \in Planners, NEW lost \in BOOLEAN, Fails(p, lost)
  PROVE  pl' \in [Planners -> PlannerStates]
  <1> DEFINE s == [PlannerIdle EXCEPT !.pc = "failed", !.i = pl[p].i,
                                      !.save = pl[p].save, !.lost = lost]
  <1>1. pl[p].i \in 1..(Len(Order) + 1) /\ pl[p].i \in Nat /\ pl[p].save \in BOOLEAN
    BY OrderInRoots DEF SPTypeOK, PlannerStates, PlannerFields
  <1>2. PlannerIdle \in PlannerFields
    BY PlannerIdleType DEF PlannerStates
  <1>3. s \in PlannerFields
    BY <1>1, <1>2 DEF PlannerFields, PlannerPCs
  <1>4. s.pc = "failed" /\ s.i = pl[p].i
    BY <1>2 DEF PlannerFields
  <1>5. s \in PlannerStates
    BY <1>1, <1>3, <1>4, OrderInRoots DEF PlannerStates
  <1> QED BY <1>5 DEF SPTypeOK, Fails

LEMMA NextRootType ==
  ASSUME SPTypeOK, NEW p \in Planners, NEW planned \in Nat, NextRoot(p, planned),
         pl[p].i \in 1..Len(Order)
  PROVE  pl' \in [Planners -> PlannerStates]
  <1> DEFINE s == [PlannerIdle EXCEPT !.pc = "root", !.i = pl[p].i + 1,
                                      !.save = pl[p].save,
                                      !.importsOnly = pl[p].importsOnly,
                                      !.planned = planned]
  <1>1. pl[p].i + 1 \in 1..(Len(Order) + 1) /\ pl[p].i + 1 \in Nat
        /\ pl[p].save \in BOOLEAN /\ pl[p].importsOnly \in BOOLEAN
    BY OrderInRoots DEF SPTypeOK, PlannerStates, PlannerFields
  <1>2. PlannerIdle \in PlannerFields
    BY PlannerIdleType DEF PlannerStates
  <1>3. s \in PlannerFields
    BY <1>1, <1>2 DEF PlannerFields, PlannerPCs
  <1>4. s.pc = "root" /\ s.i = pl[p].i + 1
    BY <1>2 DEF PlannerFields
  <1>5. s \in PlannerStates
    BY <1>1, <1>3, <1>4, OrderInRoots DEF PlannerStates
  <1> QED BY <1>5 DEF SPTypeOK, NextRoot

LEMMA UndoSaveType ==
  ASSUME SPTypeOK, NEW p \in Planners, UndoSave(p),
         pl[p].pc \notin {"idle", "root", "done", "failed"}
  PROVE  pl' \in [Planners -> PlannerStates]
  <1>1. CASE pl[p].save
    BY <1>1, GotoType DEF UndoSave, PlannerPCs, UndoSteps
  <1>2. CASE ~pl[p].save
    BY <1>2, FailsType DEF UndoSave
  <1> QED BY <1>1, <1>2

\* What a planner at an inner step may rely on.
LEMMA InnerState ==
  ASSUME SPTypeOK, NEW p \in Planners
  PROVE  /\ pl[p] \in PlannerFields /\ pl[p] \in PlannerStates
         /\ pl[p].pc \notin {"idle", "root", "done", "failed"}
              => pl[p].i \in 1..Len(Order) /\ root(p) \in Roots
         /\ pl[p].pc \in {"sha", "attest", "fpCheck", "isFile", "sources"}
              => pl[p].save /\ pl[p].fp \in Fingerprints
  BY OrderInRoots DEF SPTypeOK, PlannerStates, root, ConstantRoots

\* A step that removes one file of the current root, or fails to.
LEMMA RemoveArtifactType ==
  ASSUME SPTypeOK, NEW p \in Planners, NEW step \in DropSteps \cup UndoSteps, NEW file,
         NEW next \in {"dropSources", "dropAttest", "select", "undoSources", "undoAttest",
                       "failed"},
         RemoveArtifact(p, step, file, next)
  PROVE  SPTypeOK'
  <1>1. pl[p].pc \notin {"idle", "root", "done", "failed"}
    BY DEF RemoveArtifact, DropSteps, UndoSteps
  <1>2. pl' \in [Planners -> PlannerStates]
    <2>1. CASE Fails(p, FALSE) \/ Fails(p, TRUE)
      BY <2>1, FailsType
    <2>2. CASE Goto(p, next) /\ next # "failed"
      BY <1>1, <2>2, GotoType DEF PlannerPCs, DropSteps, UndoSteps, OuterSteps
    <2> QED BY <2>1, <2>2 DEF RemoveArtifact
  <1>3. /\ tfplan' \in [Roots -> SavedPlans \cup {Null}]
        /\ sources' \in [Roots -> Fingerprints \cup {Null, Torn}]
        /\ attest' \in [Roots -> Attestations \cup {Null, Torn}]
    BY DEF RemoveArtifact, SPTypeOK
  <1> QED BY <1>2, <1>3 DEF RemoveArtifact, SPTypeOK, historyVars

\* A write cut short.
LEMMA TearWriteType ==
  ASSUME SPTypeOK, NEW p, TearWrite(p) \/ UNCHANGED <<attest, sources>>
  PROVE  /\ sources' \in [Roots -> Fingerprints \cup {Null, Torn}]
         /\ attest' \in [Roots -> Attestations \cup {Null, Torn}]
  BY DEF TearWrite, SPTypeOK

\* Going to another step keeps the other fields.
LEMMA StepOfFields ==
  ASSUME NEW q \in PlannerFields, NEW pc \in PlannerPCs
  PROVE  [q EXCEPT !.pc = pc] \in PlannerFields
  BY DEF PlannerFields

\* The targets selected.
LEMMA TargetsUpdate ==
  ASSUME NEW q \in PlannerFields, NEW t \in Targets
  PROVE  LET s == [q EXCEPT !.pc = "refSeen", !.targets = t]
         IN  s \in PlannerFields /\ s.i = q.i /\ s.pc = "refSeen"
  BY DEF PlannerFields, PlannerPCs, OuterSteps, RunSteps

\* The sources terraform init is run on.
LEMMA InitUpdate ==
  ASSUME NEW q \in PlannerFields, NEW init \in [backend : Contents, tf : Contents]
  PROVE  LET s == [q EXCEPT !.init = init, !.pc = "init"]
         IN  s \in PlannerFields /\ s.i = q.i /\ s.pc = "init"
  BY DEF PlannerFields, PlannerPCs, OuterSteps, RunSteps

\* The digest to attest.
LEMMA DigestUpdate ==
  ASSUME NEW q \in PlannerFields, NEW sha \in Nat
  PROVE  LET s == [q EXCEPT !.sha = sha, !.pc = "attest"]
         IN  /\ s \in PlannerFields /\ s.i = q.i /\ s.pc = "attest" /\ s.sha = sha
             /\ s.save = q.save /\ s.fp = q.fp
  BY DEF PlannerFields, PlannerPCs, OuterSteps, RunSteps

\* The changes seen while planning.
LEMMA SeenUpdate ==
  ASSUME NEW q \in PlannerFields, NEW seen \in Int
  PROVE  LET s == [q EXCEPT !.pc = "isFile", !.seen = seen]
         IN  /\ s \in PlannerFields /\ s.i = q.i /\ s.pc = "isFile"
             /\ s.save = q.save /\ s.fp = q.fp
  BY DEF PlannerFields, PlannerPCs, OuterSteps, RunSteps

\* The steps of the loop that only read.
LEMMA ReadStepType ==
  ASSUME SPTypeOK, NEW p \in Planners,
         \/ PlanRoot(p) \/ SelectTargets(p) \/ CaptureReference(p) \/ CaptureInitSources(p)
         \/ CheckInitSources(p) \/ CheckReferenceAfterInit(p) \/ Fingerprint(p)
         \/ ConfirmReference(p) \/ DigestPlan(p) \/ CheckFingerprint(p) \/ CheckPlanFile(p)
         \/ OuterFails(p)
  PROVE  SPTypeOK'
  <1> USE InnerState DEF worldVars, historyVars
  <1>0. SUFFICES pl' \in [Planners -> PlannerStates]
    <2>1. UNCHANGED <<worldVars, historyVars, cl, plans, edits>>
      BY DEF PlanRoot, SelectTargets, CaptureReference, CaptureInitSources, CheckInitSources,
             CheckReferenceAfterInit, Fingerprint, ConfirmReference, DigestPlan,
             CheckFingerprint, CheckPlanFile, OuterFails
    <2> QED BY <2>1 DEF SPTypeOK
  <1>a. pl[p] \in PlannerFields
    OBVIOUS
  <1>1. CASE PlanRoot(p)
    <2>1. pl[p].i \in 1..(Len(Order) + 1) /\ pl[p].planned \in Nat /\ Len(Order) \in Nat
      BY OrderInRoots DEF PlannerStates, PlannerFields
    <2>2. CASE pl[p].i > Len(Order) /\ Goto(p, "done")
      <3>1. [pl[p] EXCEPT !.pc = "done"] \in PlannerFields
        BY DEF PlannerFields, PlannerPCs
      <3>2. [pl[p] EXCEPT !.pc = "done"] \in PlannerStates
        BY <2>1, <3>1 DEF PlannerStates, PlannerFields
      <3> QED BY <2>2, <3>2 DEF Goto, SPTypeOK
    <2>3. CASE Fails(p, FALSE)
      BY <1>1, <2>3, FailsType DEF PlanRoot
    <2>4. CASE pl[p].i <= Len(Order) /\ NextRoot(p, pl[p].planned)
      BY <1>1, <2>1, <2>4, NextRootType DEF PlanRoot
    <2>5. CASE /\ pl[p].i <= Len(Order)
               /\ Goto(p, IF pl[p].save THEN "dropPlan" ELSE "select")
      <3> DEFINE pc == IF pl[p].save THEN "dropPlan" ELSE "select"
      <3>1. [pl[p] EXCEPT !.pc = pc] \in PlannerFields
        <4>1. pc \in PlannerPCs
          BY DEF PlannerPCs, DropSteps, OuterSteps
        <4> HIDE DEF pc
        <4> QED BY <4>1, <1>a, StepOfFields
      <3>2. [pl[p] EXCEPT !.pc = pc] \in PlannerStates
        <4> DEFINE s == [pl[p] EXCEPT !.pc = pc]
        <4>1. pc \in {"dropPlan", "select"}
          OBVIOUS
        <4>2. pl[p].i \in 1..Len(Order) /\ pl[p].i \in 1..(Len(Order) + 1)
          BY <2>1, <2>5
        <4> HIDE DEF pc
        <4>3. s.pc = pc /\ s.i = pl[p].i
          BY <1>a DEF PlannerFields
        <4> HIDE DEF s
        <4>4. s \in PlannerFields
          BY <3>1 DEF s
        <4>5. s \in PlannerStates
          BY <4>1, <4>2, <4>3, <4>4 DEF PlannerStates
        <4> QED BY <4>5 DEF s
      <3> QED BY <2>5, <3>2 DEF Goto, SPTypeOK
    <2>6. CASE pl[p].i > Len(Order)
      BY <1>1, <2>2, <2>3, <2>6 DEF PlanRoot
    <2>7. CASE pl[p].i <= Len(Order)
      <3>1. ~(pl[p].i > Len(Order))
        BY <2>1, <2>7
      <3>2. \/ NextRoot(p, pl[p].planned)
            \/ Goto(p, IF pl[p].save THEN "dropPlan" ELSE "select")
        BY <1>1, <3>1, Zenon DEF PlanRoot
      <3> QED BY <2>4, <2>5, <2>7, <3>2
    <2>8. pl[p].i > Len(Order) \/ pl[p].i <= Len(Order)
      BY <2>1
    <2> QED BY <2>6, <2>7, <2>8
  <1>2. CASE SelectTargets(p)
    <2> DEFINE t == IF pl[p].importsOnly THEN StagedTargets(root(p)) ELSE {}
               s == [pl[p] EXCEPT !.pc = "refSeen", !.targets = t]
    <2>1. t \in Targets
      BY <1>2 DEF SelectTargets, StagedTargets, Targets, SPTypeOK, Fingerprints
    <2>2. CASE NextRoot(p, pl[p].planned)
      BY <1>2, <2>2, NextRootType DEF SelectTargets, PlannerFields
    <2>3. CASE pl' = [pl EXCEPT ![p] = s]
      <3>1. s \in PlannerFields /\ s.i = pl[p].i /\ s.pc = "refSeen"
        <4> HIDE DEF t
        <4> QED BY <2>1, <1>a, TargetsUpdate
      <3>2. s \in PlannerStates
        <4> HIDE DEF s, t
        <4> QED BY <1>2, <3>1, OrderInRoots DEF PlannerStates, SelectTargets
      <3> QED BY <1>2, <2>3, <3>2 DEF SelectTargets, SPTypeOK
    <2>4. CASE Fails(p, FALSE)
      BY <1>2, <2>4, FailsType DEF SelectTargets
    <2>5. pl' = [pl EXCEPT ![p].pc = "refSeen", ![p].targets = t] => pl' = [pl EXCEPT ![p] = s]
      BY DEF SPTypeOK
    <2> QED BY <1>2, <2>2, <2>3, <2>4, <2>5 DEF SelectTargets
  <1>3. CASE CaptureReference(p)
    <2> DEFINE ref == ReferenceEnvironment(root(p))
               pc == IF pl[p].save THEN "capture" ELSE "init"
               s == [pl[p] EXCEPT !.ref = ref, !.pc = pc]
    <2>1. ref \in Contents \cup {Null}
      BY <1>3 DEF CaptureReference, ReferenceEnvironment, SPTypeOK, Fingerprints
    <2>2. s \in PlannerFields /\ s.i = pl[p].i /\ s.pc \in {"capture", "init"}
      <3>1. pc \in {"capture", "init"}
        OBVIOUS
      <3>2. pc \in PlannerPCs
        BY <3>1 DEF PlannerPCs, OuterSteps, RunSteps
      <3> HIDE InnerState DEF ref, pc
      <3> QED BY <2>1, <3>1, <3>2, <1>a DEF PlannerFields
    <2>3. s \in PlannerStates
      <3> HIDE DEF s, ref, pc
      <3> QED BY <1>3, <2>2, OrderInRoots DEF PlannerStates, CaptureReference
    <2> QED BY <1>3, <2>3 DEF CaptureReference, SPTypeOK
  <1>4. CASE CaptureInitSources(p)
    <2> DEFINE init == InitSources(root(p))
               s == [pl[p] EXCEPT !.init = init, !.pc = "init"]
    <2>1. init \in [backend : Contents, tf : Contents]
      BY <1>4 DEF CaptureInitSources, InitSources, SPTypeOK, Fingerprints
    <2>2. s \in PlannerFields /\ s.i = pl[p].i /\ s.pc = "init"
      <3> HIDE DEF init
      <3> QED BY <2>1, <1>a, InitUpdate
    <2>3. s \in PlannerStates
      <3> HIDE DEF s, init
      <3> QED BY <1>4, <2>2, OrderInRoots DEF PlannerStates, CaptureInitSources
    <2> QED BY <1>4, <2>3 DEF CaptureInitSources, SPTypeOK
  <1>5. CASE CheckInitSources(p)
    <2>1. CASE Goto(p, "refAfter")
      BY <1>5, <2>1, GotoType DEF CheckInitSources, PlannerPCs, RunSteps
    <2> QED BY <1>5, <2>1, UndoSaveType DEF CheckInitSources
  <1>6. CASE CheckReferenceAfterInit(p)
    <2>1. CASE pl[p].save /\ Goto(p, "fingerprint")
      BY <1>6, <2>1, GotoType DEF CheckReferenceAfterInit, PlannerPCs, RunSteps
    <2>2. CASE ~pl[p].save /\ Goto(p, "refConfirm")
      BY <1>6, <2>2, GotoType DEF CheckReferenceAfterInit, PlannerPCs, RunSteps
    <2> QED BY <1>6, <2>1, <2>2, UndoSaveType DEF CheckReferenceAfterInit
  <1>7. CASE Fingerprint(p)
    <2> DEFINE fp == PlanSources(root(p))
               since == epoch[root(p)]
               s == [pl[p] EXCEPT !.fp = fp, !.since = since, !.pc = "refConfirm"]
    <2>1. fp \in Fingerprints /\ since \in Nat
      BY <1>7 DEF Fingerprint, PlanSources, SPTypeOK
    <2>2. s \in PlannerFields /\ s.i = pl[p].i /\ s.pc = "refConfirm" /\ s.fp = fp
      <3> HIDE InnerState, <1>7 DEF fp, since
      <3> QED BY <2>1, <1>a DEF PlannerFields, PlannerPCs, RunSteps
    <2>3. s \in PlannerStates
      <3> HIDE DEF s, fp, since
      <3> QED BY <1>7, <2>1, <2>2, OrderInRoots DEF PlannerStates, Fingerprint
    <2> QED BY <1>7, <2>3 DEF Fingerprint, SPTypeOK
  <1>8. CASE ConfirmReference(p)
    <2>1. CASE Goto(p, "plan")
      <3>1. pl[p].save => pl[p].fp \in Fingerprints
        BY <1>8 DEF ConfirmReference, PlannerStates
      <3> QED BY <1>8, <2>1, <3>1, GotoType DEF ConfirmReference, PlannerPCs, RunSteps
    <2> QED BY <1>8, <2>1, UndoSaveType DEF ConfirmReference
  <1>9. CASE DigestPlan(p)
    <2>1. CASE tfplan[root(p)] # Null
      <3> DEFINE sha == tfplan[root(p)].id
                 s == [pl[p] EXCEPT !.sha = sha, !.pc = "attest"]
      <3>1. sha \in Nat
        BY <1>9, <2>1 DEF DigestPlan, SPTypeOK, SavedPlans
      <3>2. /\ s \in PlannerFields /\ s.i = pl[p].i /\ s.pc = "attest" /\ s.sha = sha
            /\ s.save = pl[p].save /\ s.fp = pl[p].fp
        <4> HIDE DEF sha
        <4> QED BY <3>1, <1>a, DigestUpdate
      <3>3. s \in PlannerStates
        <4> HIDE DEF s, sha
        <4> QED BY <1>9, <3>1, <3>2, OrderInRoots DEF PlannerStates, DigestPlan
      <3> QED BY <1>9, <2>1, <3>3 DEF DigestPlan, SPTypeOK
    <2> QED BY <1>9, <2>1, UndoSaveType DEF DigestPlan
  <1>10. CASE CheckFingerprint(p)
    <2>1. CASE PlanSources(root(p)) = pl[p].fp
      <3> DEFINE seen == epoch[root(p)] - pl[p].since
                 s == [pl[p] EXCEPT !.pc = "isFile", !.seen = seen]
      <3>1. seen \in Int
        <4>1. root(p) \in Roots
          BY <1>10 DEF CheckFingerprint
        <4>2. epoch[root(p)] \in Nat
          BY <4>1 DEF SPTypeOK
        <4>3. pl[p].since \in Nat
          BY DEF PlannerFields
        <4> QED BY <4>2, <4>3
      <3>2. /\ s \in PlannerFields /\ s.i = pl[p].i /\ s.pc = "isFile"
            /\ s.save = pl[p].save /\ s.fp = pl[p].fp
        <4> HIDE DEF seen
        <4> QED BY <3>1, <1>a, SeenUpdate
      <3>3. s \in PlannerStates
        <4> HIDE DEF s, seen
        <4> QED BY <1>10, <3>2, OrderInRoots DEF PlannerStates, CheckFingerprint
      <3> QED BY <1>10, <2>1, <3>3 DEF CheckFingerprint, SPTypeOK
    <2> QED BY <1>10, <2>1, UndoSaveType DEF CheckFingerprint
  <1>11. CASE CheckPlanFile(p)
    <2>1. CASE Goto(p, "sources")
      BY <1>11, <2>1, GotoType DEF CheckPlanFile, PlannerPCs, RunSteps
    <2> QED BY <1>11, <2>1, UndoSaveType DEF CheckPlanFile
  <1>12. CASE OuterFails(p)
    BY <1>12, FailsType DEF OuterFails
  <1> QED BY <1>1, <1>2, <1>3, <1>4, <1>5, <1>6, <1>7, <1>8, <1>9, <1>10, <1>11, <1>12

\* The steps of the loop that write a file of the root.
LEMMA WriteStepType ==
  ASSUME SPTypeOK, NEW p \in Planners,
         \/ Initialize(p) \/ TerraformPlan(p) \/ WriteAttestation(p) \/ WriteSources(p)
         \/ RunFails(p)
  PROVE  SPTypeOK'
  <1>1. CASE Initialize(p)
    <2>1. root(p) \in Roots
      BY <1>1, InnerState DEF Initialize
    <2>2. inputs' \in [Roots -> Fingerprints] /\ epoch' \in [Roots -> Nat]
      BY <1>1, <2>1, TerraformInitType DEF Initialize
    <2>3. pl' \in [Planners -> PlannerStates]
      BY <1>1, GotoType DEF Initialize, PlannerPCs, RunSteps
    <2> QED BY <1>1, <2>2, <2>3 DEF Initialize, SPTypeOK
  <1>2. CASE TerraformPlan(p)
    <2>1. root(p) \in Roots /\ pl[p].i \in 1..Len(Order)
          /\ pl[p].targets \in Targets /\ pl[p].planned + 1 \in Nat
      BY <1>2, InnerState DEF TerraformPlan, PlannerFields
    <2>2. CASE pl[p].save
      <3>1. pl[p].fp \in Fingerprints
        BY <1>2, <2>2, InnerState DEF TerraformPlan, PlannerStates
      <3>2. pl' \in [Planners -> PlannerStates]
        BY <1>2, <2>2, <3>1, GotoType DEF TerraformPlan, PlannerPCs, RunSteps
      <3>3. PICK b \in PlanBodies(pl[p].targets) :
              tfplan' = [tfplan EXCEPT ![root(p)] =
                           [id |-> plans', from |-> inputs[root(p)],
                            targets |-> pl[p].targets, body |-> b]]
        BY <1>2, <2>2 DEF TerraformPlan
      <3>4. plans' \in Nat /\ inputs[root(p)] \in Fingerprints /\ b \in Bodies
        BY <1>2, <2>1, <2>2 DEF TerraformPlan, SPTypeOK, PlanBodies
      <3>5. tfplan' \in [Roots -> SavedPlans \cup {Null}]
        BY <2>1, <3>3, <3>4 DEF SavedPlans, SPTypeOK
      <3> QED BY <1>2, <3>2, <3>4, <3>5 DEF TerraformPlan, SPTypeOK, historyVars
    <2>3. CASE ~pl[p].save
      <3>1. pl' \in [Planners -> PlannerStates]
        BY <1>2, <2>1, <2>3, NextRootType DEF TerraformPlan, PlanDone
      <3> QED BY <1>2, <2>3, <3>1 DEF TerraformPlan, SPTypeOK, historyVars
    <2> QED BY <2>2, <2>3
  <1>3. CASE WriteAttestation(p)
    <2>1. pl[p].sha \in Nat /\ pl[p].targets \in Targets /\ pl[p].save
          /\ pl[p].fp \in Fingerprints
      BY <1>3, InnerState DEF WriteAttestation, PlannerStates, PlannerFields
    <2>2. pl' \in [Planners -> PlannerStates]
      BY <1>3, <2>1, GotoType DEF WriteAttestation, PlannerPCs, RunSteps
    <2>3. attest' \in [Roots -> Attestations \cup {Null, Torn}]
      BY <1>3, <2>1 DEF WriteAttestation, SPTypeOK, Attestations
    <2> QED BY <1>3, <2>2, <2>3 DEF WriteAttestation, SPTypeOK, historyVars
  <1>4. CASE WriteSources(p)
    <2>1. /\ pl[p].fp \in Fingerprints /\ pl[p].seen \in Int /\ pl[p].planned + 1 \in Nat
          /\ pl[p].i \in 1..Len(Order)
      BY <1>4, InnerState DEF WriteSources, PlannerFields
    <2>2. pl' \in [Planners -> PlannerStates]
      BY <1>4, <2>1, NextRootType DEF WriteSources, PlanDone
    <2>3. /\ sources' \in [Roots -> Fingerprints \cup {Null, Torn}]
          /\ churn' \in [1..MaxPlans -> Int]
      BY <1>4, <2>1 DEF WriteSources, SPTypeOK
    <2> QED BY <1>4, <2>2, <2>3 DEF WriteSources, SPTypeOK
  <1>5. CASE RunFails(p)
    <2>1. pl' \in [Planners -> PlannerStates]
      BY <1>5, UndoSaveType DEF RunFails, RunSteps
    <2> QED BY <1>5, <2>1, TearWriteType DEF RunFails, SPTypeOK, historyVars
  <1> QED BY <1>1, <1>2, <1>3, <1>4, <1>5

LEMMA PlannerNextType ==
  ASSUME SPTypeOK, NEW p \in Planners, PlannerNext(p)
  PROVE  SPTypeOK'
  <1>1. ASSUME NEW o \in Invocations, StartPlan(p, o.save, o.importsOnly)
        PROVE  SPTypeOK'
    <2> DEFINE s == [PlannerIdle EXCEPT !.pc = "root", !.save = o.save,
                                        !.importsOnly = o.importsOnly]
    <2>1. o.save \in BOOLEAN /\ o.importsOnly \in BOOLEAN
      BY SavedPlanAssumption
    <2>2. PlannerIdle \in PlannerFields /\ PlannerIdle.i = 1
      BY PlannerIdleType DEF PlannerStates, PlannerIdle
    <2>3. s \in PlannerFields /\ s.pc = "root" /\ s.i = 1
      BY <2>1, <2>2 DEF PlannerFields, PlannerPCs
    <2>4. s \in PlannerStates
      <3> HIDE DEF s
      <3> QED BY <2>3, OrderInRoots DEF PlannerStates
    <2> QED BY <1>1, <2>4 DEF StartPlan, SPTypeOK, worldVars, historyVars
  <1>2. CASE DropSaved(p)
    BY <1>2, RemoveArtifactType DEF DropSaved, DropSteps
  <1>3. CASE UndoSaved(p)
    BY <1>3, RemoveArtifactType DEF UndoSaved, UndoSteps
  <1>4. CASE PlannerCrash(p)
    <2>1. pl' \in [Planners -> PlannerStates]
      BY <1>4, PlannerIdleType DEF PlannerCrash, SPTypeOK
    <2> QED BY <1>4, <2>1, TearWriteType DEF PlannerCrash, SPTypeOK, historyVars
  <1> QED BY <1>1, <1>2, <1>3, <1>4, ReadStepType, WriteStepType DEF PlannerNext, PlannerStep

LEMMA CleanerNextType ==
  ASSUME SPTypeOK, CleanerNext
  PROVE  SPTypeOK'
  <1>1. cl' \in CleanerStates
    <2>1. /\ cl \in [pc : {"idle", "plan", "sources", "attest"}, i : 1..(Len(Order) + 1)]
          /\ cl.pc # "idle" => cl.i \in 1..Len(Order)
          /\ Len(Order) \in Nat
      BY OrderInRoots DEF SPTypeOK, CleanerStates
    <2>2. CASE StartClean
      <3>1. cl.i \in 1..Len(Order) /\ cl' = [cl EXCEPT !.pc = "plan"]
        BY <2>1, <2>2 DEF StartClean
      <3>2. /\ cl' \in [pc : {"idle", "plan", "sources", "attest"}, i : 1..(Len(Order) + 1)]
            /\ cl'.i = cl.i
        BY <2>1, <3>1
      <3> QED BY <3>1, <3>2 DEF CleanerStates
    <2>3. CASE CleanFile
      BY <2>1, <2>3 DEF CleanFile, CleanerStates
    <2>4. CASE CleanerStops
      <3>1. /\ cl' \in [pc : {"idle", "plan", "sources", "attest"}, i : 1..(Len(Order) + 1)]
            /\ cl'.pc = "idle"
        <4> DEFINE n == Len(Order) + 1
        <4>1. n \in 1..(Len(Order) + 1)
          BY <2>1
        <4>2. cl' = [cl EXCEPT !.pc = "idle", !.i = n]
          BY <2>4 DEF CleanerStops
        <4> HIDE DEF n
        <4> QED BY <2>1, <4>1, <4>2
      <3> QED BY <3>1 DEF CleanerStates
    <2> QED BY <2>2, <2>3, <2>4 DEF CleanerNext
  <1>2. /\ tfplan' \in [Roots -> SavedPlans \cup {Null}]
        /\ sources' \in [Roots -> Fingerprints \cup {Null, Torn}]
        /\ attest' \in [Roots -> Attestations \cup {Null, Torn}]
    BY DEF CleanerNext, StartClean, CleanFile, CleanerStops, worldVars, SPTypeOK
  <1>3. UNCHANGED <<inputs, historyVars, pl, plans, edits>>
    BY DEF CleanerNext, StartClean, CleanFile, CleanerStops, worldVars
  <1> QED BY <1>1, <1>2, <1>3 DEF SPTypeOK, historyVars

LEMMA EditorType ==
  ASSUME SPTypeOK, Editor
  PROVE  SPTypeOK'
  <1>1. PICK r \in Roots, part \in Parts, c \in Contents \cup {Null} : EditInputs(r, part, c)
    BY DEF Editor
  <1> DEFINE R   == IF part = "backend" THEN Roots ELSE {r}
             new == [s \in Roots |-> [inputs[s] EXCEPT ![part] = c]]
  <1>2. new \in [Roots -> Fingerprints]
    BY <1>1 DEF EditInputs, SPTypeOK, Fingerprints, Parts
  <1>3. ChangeInputs(R, new) /\ R \in SUBSET Roots
    BY <1>1 DEF EditInputs
  <1>4. inputs' \in [Roots -> Fingerprints] /\ epoch' \in [Roots -> Nat]
    <2> HIDE DEF R, new
    <2> QED BY <1>2, <1>3, ChangeInputsType
  <1>5. edits' \in Nat /\ UNCHANGED <<tfplan, sources, attest, churn, pl, cl, plans>>
    BY <1>1 DEF EditInputs, SPTypeOK
  <1> QED BY <1>4, <1>5 DEF SPTypeOK

LEMMA SPInitType ==
  ASSUME SPInit
  PROVE  SPTypeOK
  <1>1. inputs \in [Roots -> Fingerprints]
    BY SavedPlanAssumption DEF SPInit, Fingerprints
  <1>2. cl \in CleanerStates
    BY OrderInRoots DEF SPInit, CleanerIdle, CleanerStates
  <1> QED BY <1>1, <1>2, PlannerIdleType DEF SPInit, SPTypeOK

LEMMA SPNextType ==
  ASSUME SPTypeOK, [SPNext]_spVars
  PROVE  SPTypeOK'
  <1>1. CASE UNCHANGED spVars
    BY <1>1 DEF spVars, SPTypeOK
  <1> QED BY <1>1, PlannerNextType, CleanerNextType, EditorType DEF SPNext

\* Every reachable state is well typed: a planner inside its loop has a
\* current root, one past its fingerprint a fingerprint to declare.
THEOREM SavedPlanTypeCorrect == SPSpec => []SPTypeOK
  <1>1. SPInit => SPTypeOK
    BY SPInitType
  <1>2. SPTypeOK /\ [SPNext]_spVars => SPTypeOK'
    BY SPNextType
  <1> QED BY <1>1, <1>2, PTL DEF SPSpec

-----------------------------------------------------------------------------
(* What one `iw plan` process at a time guarantees of the files it leaves, *)
(* whatever clean-plans, the editors and failures do in between: a saved   *)
(* plan is declared by its own inputs and attested with its own scope, and *)
(* a failed save leaves nothing.                                           *)

\* The files of the current root are gone before Terraform plans, and go again
\* after a failure; the declaration stays away until the last step.
FilesGone(p) ==
    LET r == root(p)
    IN  pl[p].save =>
          /\ pl[p].pc \in {"dropSources", "undoSources"} => tfplan[r] = Null
          /\ pl[p].pc \in {"dropAttest", "undoAttest"} => tfplan[r] = Null /\ sources[r] = Null
          /\ pl[p].pc \in OuterSteps \cup {"init", "initCheck", "refAfter", "fingerprint",
                                           "refConfirm", "plan"}
               => tfplan[r] = Null /\ sources[r] = Null /\ attest[r] = Null
          /\ pl[p].pc \in {"sha", "attest", "fpCheck", "isFile", "sources"} => sources[r] = Null

\* Until the plan runs the inputs are the fingerprinted ones or have changed;
\* a plan of other inputs than those means one change before it, hence two
\* once the inputs are found to be the fingerprinted ones again.
InputsTracked(p) ==
    LET r == root(p)
    IN  /\ pl[p].pc \in {"refConfirm", "plan"} /\ pl[p].save
             => /\ epoch[r] >= pl[p].since
                /\ epoch[r] = pl[p].since => inputs[r] = pl[p].fp
        /\ pl[p].pc \in {"sha", "attest", "fpCheck"} /\ tfplan[r] # Null
             => \/ tfplan[r].from = pl[p].fp
                \/ epoch[r] > pl[p].since + 1
                \/ epoch[r] = pl[p].since + 1 /\ inputs[r] = tfplan[r].from
        /\ pl[p].pc \in {"isFile", "sources"} /\ tfplan[r] # Null
             => tfplan[r].from = pl[p].fp \/ pl[p].seen >= 2

\* From its creation to its declaration the plan is the latest one, and has
\* the scope and the digest that are attested.
PlanTracked(p) ==
    LET r == root(p)
    IN  /\ pl[p].pc \in {"sha", "attest"} /\ tfplan[r] # Null
             => tfplan[r].targets = pl[p].targets
        /\ pl[p].pc \in {"sha", "attest", "fpCheck", "isFile", "sources"}
             => /\ plans # 0
                /\ tfplan[r] # Null => tfplan[r].id = plans
                /\ \A s \in Roots : s # r /\ tfplan[s] # Null => tfplan[s].id < plans
        /\ pl[p].pc \in {"attest", "fpCheck", "isFile", "sources"} => pl[p].sha = plans

\* Plan identities are given out once.
IdsGiven ==
    /\ plans \in 0..MaxPlans
    /\ \A r \in Roots : /\ tfplan[r] # Null => tfplan[r].id \in 1..plans
                        /\ attest[r] \notin {Null, Torn} => attest[r].plan \in 1..plans

SoleInv(p) ==
    /\ SPTypeOK
    /\ FilesGone(p)
    /\ InputsTracked(p)
    /\ PlanTracked(p)
    /\ IdsGiven
    /\ SourcesBindPlan
    /\ AttestationTellsScope
    /\ FailedSaveLeavesNothing

-----------------------------------------------------------------------------
(* What the parts of SoleInv are about, for one planner state.             *)

\* pl'[p] after each of the ways a step ends.
LEMMA AfterGoto ==
  ASSUME SPTypeOK, NEW p \in Planners, NEW pc, Goto(p, pc)
  PROVE  /\ pl'[p].pc = pc /\ pl'[p].i = pl[p].i /\ pl'[p].save = pl[p].save
         /\ pl'[p].fp = pl[p].fp /\ pl'[p].since = pl[p].since /\ pl'[p].seen = pl[p].seen
         /\ pl'[p].sha = pl[p].sha /\ pl'[p].targets = pl[p].targets
         /\ pl'[p].lost = pl[p].lost
         /\ root(p)' = root(p)
  <1>1. pl[p] \in PlannerFields
    BY InnerState
  <1> QED BY <1>1 DEF Goto, SPTypeOK, PlannerFields, root

LEMMA AfterFails ==
  ASSUME SPTypeOK, NEW p \in Planners, NEW lost, Fails(p, lost)
  PROVE  /\ pl'[p].pc = "failed" /\ pl'[p].i = pl[p].i /\ pl'[p].save = pl[p].save
         /\ pl'[p].lost = lost
         /\ root(p)' = root(p)
  BY DEF Fails, PlannerIdle, SPTypeOK, root

LEMMA AfterNextRoot ==
  ASSUME SPTypeOK, NEW p \in Planners, NEW planned, NextRoot(p, planned)
  PROVE  pl'[p].pc = "root"
  BY DEF NextRoot, PlannerIdle, SPTypeOK

\* Steps of the loop's start and end leave nothing to track.
LEMMA NothingTracked ==
  ASSUME NEW p \in Planners, pl[p].pc \in {"idle", "root", "done", "failed"}
  PROVE  /\ FilesGone(p) /\ InputsTracked(p) /\ PlanTracked(p)
  BY DEF FilesGone, InputsTracked, PlanTracked, OuterSteps

\* What does not depend on the planner is kept when files only disappear.
LEMMA FilesDisappear ==
  ASSUME NEW p \in Planners, SoleInv(p), UNCHANGED <<plans, churn>>,
         SPTypeOK',
         \A r \in Roots : /\ tfplan'[r] \in {tfplan[r], Null}
                          /\ sources'[r] \in {sources[r], Null, Torn}
                          /\ attest'[r] \in {attest[r], Null, Torn}
  PROVE  SourcesBindPlan' /\ AttestationTellsScope' /\ IdsGiven'
  <1>1. SourcesBindPlan'
    BY DEF SoleInv, SourcesBindPlan, Declared
  <1>2. AttestationTellsScope'
    BY DEF SoleInv, AttestationTellsScope
  <1>3. IdsGiven'
    BY DEF SoleInv, IdsGiven
  <1> QED BY <1>1, <1>2, <1>3

\* The others: planner and identities stay, files may disappear, inputs change
\* only together with their epoch.
LEMMA OthersKeepSoleInv ==
  ASSUME NEW p \in Planners, Planners = {p}, SoleInv(p), SPTypeOK',
         UNCHANGED <<pl, plans, churn>>,
         \A r \in Roots : /\ tfplan'[r] \in {tfplan[r], Null}
                          /\ sources'[r] \in {sources[r], Null}
                          /\ attest'[r] \in {attest[r], Null}
                          /\ \/ inputs'[r] = inputs[r] /\ epoch'[r] = epoch[r]
                             \/ epoch'[r] = epoch[r] + 1
  PROVE  SoleInv(p)'
  <1>1. SourcesBindPlan' /\ AttestationTellsScope' /\ IdsGiven'
    BY FilesDisappear
  <1>2. root(p)' = root(p)
    BY DEF root
  <1>3. /\ pl[p] \in PlannerFields
        /\ pl[p].pc \notin {"idle", "root", "done", "failed"} => root(p) \in Roots
    BY InnerState DEF SoleInv
  <1>4. CASE pl[p].pc \in {"idle", "root", "done", "failed"}
    <2>1. FilesGone(p)' /\ InputsTracked(p)' /\ PlanTracked(p)' /\ IdsGiven'
      BY <1>1, <1>4 DEF FilesGone, InputsTracked, PlanTracked, IdsGiven, OuterSteps
    <2>2. FailedSaveLeavesNothing'
      <3> SUFFICES ASSUME pl[p].pc = "failed", pl[p].save, ~pl[p].lost, pl[p].i <= Len(Order)
                   PROVE  /\ tfplan'[root(p)] = Null /\ sources'[root(p)] = Null
                          /\ attest'[root(p)] = Null
        BY <1>2 DEF FailedSaveLeavesNothing
      <3>1. root(p) \in Roots
        <4>1. pl[p].i \in 1..(Len(Order) + 1)
          BY DEF SoleInv, SPTypeOK, PlannerStates
        <4> QED BY <4>1, OrderInRoots DEF root, ConstantRoots
      <3> QED BY <3>1 DEF SoleInv, FailedSaveLeavesNothing
    <2> QED BY <1>1, <2>1, <2>2 DEF SoleInv
  <1>5. CASE pl[p].pc \notin {"idle", "root", "done", "failed"}
    <2> DEFINE r == root(p)
    <2>1. /\ r \in Roots /\ pl[p].since \in Nat
          /\ epoch[r] \in Nat
      BY <1>3, <1>5 DEF SoleInv, SPTypeOK, PlannerFields
    <2>2. FilesGone(p)'
      BY <1>2, <2>1 DEF SoleInv, FilesGone
    <2>3. InputsTracked(p)'
      <3> HIDE DEF r
      <3>1. r = root(p)
        BY DEF r
      <3> QED BY <1>2, <2>1, <3>1 DEF SoleInv, InputsTracked
    <2>4. PlanTracked(p)' /\ IdsGiven'
      BY <1>1, <1>2, <2>1 DEF SoleInv, PlanTracked, IdsGiven
    <2>5. FailedSaveLeavesNothing'
      BY <1>5 DEF FailedSaveLeavesNothing
    <2> QED BY <1>1, <2>2, <2>3, <2>4, <2>5 DEF SoleInv
  <1> QED BY <1>4, <1>5

-----------------------------------------------------------------------------
(* The planner's own steps *)

\* A step that fails, from a state in which a save has left nothing or loses
\* a file it could not remove.
LEMMA FailKeepsSoleInv ==
  ASSUME NEW p \in Planners, Planners = {p}, SoleInv(p), SPTypeOK',
         NEW lost \in BOOLEAN, Fails(p, lost), UNCHANGED <<plans, churn>>,
         pl[p].pc \in DropSteps \cup UndoSteps \cup OuterSteps \/ ~pl[p].save
           \/ pl[p].i > Len(Order),
         \/ lost \/ ~pl[p].save \/ pl[p].i > Len(Order)
         \/ /\ tfplan'[root(p)] = Null /\ sources'[root(p)] = Null
            /\ attest'[root(p)] = Null,
         \A r \in Roots : /\ tfplan'[r] \in {tfplan[r], Null}
                          /\ sources'[r] \in {sources[r], Null, Torn}
                          /\ attest'[r] \in {attest[r], Null, Torn}
  PROVE  SoleInv(p)'
  <1>1. SPTypeOK
    BY DEF SoleInv
  <1>2. /\ pl'[p].pc = "failed" /\ pl'[p].i = pl[p].i /\ pl'[p].save = pl[p].save
        /\ pl'[p].lost = lost /\ root(p)' = root(p)
    BY <1>1, AfterFails
  <1>3. FilesGone(p)' /\ InputsTracked(p)' /\ PlanTracked(p)'
    BY <1>2 DEF FilesGone, InputsTracked, PlanTracked, OuterSteps
  <1>4. IdsGiven' /\ SourcesBindPlan' /\ AttestationTellsScope'
    BY FilesDisappear
  <1>5. FailedSaveLeavesNothing'
    <2>1. pl[p].i \in 1..(Len(Order) + 1) /\ Len(Order) \in Nat
      BY <1>1, OrderInRoots DEF SPTypeOK, PlannerStates
    <2> QED BY <1>2, <2>1 DEF FailedSaveLeavesNothing
  <1> QED BY <1>3, <1>4, <1>5 DEF SoleInv

\* A step to another place of the same iteration, given what is tracked there.
LEMMA MoveKeepsSoleInv ==
  ASSUME NEW p \in Planners, Planners = {p}, SoleInv(p), SPTypeOK',
         pl'[p].pc # "failed", UNCHANGED <<plans, churn>>,
         FilesGone(p)', InputsTracked(p)', PlanTracked(p)',
         \A r \in Roots : /\ tfplan'[r] \in {tfplan[r], Null}
                          /\ sources'[r] \in {sources[r], Null, Torn}
                          /\ attest'[r] \in {attest[r], Null, Torn}
  PROVE  SoleInv(p)'
  <1>1. IdsGiven' /\ SourcesBindPlan' /\ AttestationTellsScope'
    BY FilesDisappear
  <1>2. FailedSaveLeavesNothing'
    BY DEF FailedSaveLeavesNothing
  <1> QED BY <1>1, <1>2 DEF SoleInv

LEMMA RemoveKeepsSoleInv ==
  ASSUME NEW p \in Planners, Planners = {p}, SoleInv(p), SPTypeOK',
         DropSaved(p) \/ UndoSaved(p)
  PROVE  SoleInv(p)'
  <1>1. SPTypeOK /\ FilesGone(p)
    BY DEF SoleInv
  <1>2. root(p) \in Roots /\ pl[p].pc \in DropSteps \cup UndoSteps
    BY <1>1, InnerState DEF DropSaved, UndoSaved, RemoveArtifact, DropSteps, UndoSteps
  <1>3. /\ UNCHANGED <<plans, churn>>
        /\ \A r \in Roots : /\ tfplan'[r] \in {tfplan[r], Null}
                            /\ sources'[r] \in {sources[r], Null, Torn}
                            /\ attest'[r] \in {attest[r], Null, Torn}
    BY <1>1, <1>2 DEF DropSaved, UndoSaved, RemoveArtifact, SPTypeOK, historyVars
  <1>4. CASE Fails(p, TRUE)
    BY <1>2, <1>3, <1>4, FailKeepsSoleInv
  <1>5. CASE Fails(p, FALSE) /\ pl[p].pc = "undoAttest" /\ attest'[root(p)] = Null
             /\ UNCHANGED <<tfplan, sources>>
    <2>1. pl[p].save => tfplan'[root(p)] = Null /\ sources'[root(p)] = Null
      BY <1>1, <1>5 DEF FilesGone
    <2> QED BY <1>2, <1>3, <1>5, <2>1, FailKeepsSoleInv
  <1>6. ASSUME NEW next \in {"dropSources", "dropAttest", "select", "undoSources",
                             "undoAttest"},
               Goto(p, next),
               next \in {"dropSources", "undoSources"} => tfplan'[root(p)] = Null,
               next \in {"dropAttest", "undoAttest"}
                 => tfplan'[root(p)] = tfplan[root(p)] /\ sources'[root(p)] = Null
                    /\ pl[p].pc \in {"dropSources", "undoSources"},
               next = "select" => /\ tfplan'[root(p)] = tfplan[root(p)]
                                  /\ sources'[root(p)] = sources[root(p)]
                                  /\ attest'[root(p)] = Null
                                  /\ pl[p].pc = "dropAttest"
        PROVE  SoleInv(p)'
    <2>1. /\ pl'[p].pc = next /\ pl'[p].save = pl[p].save /\ root(p)' = root(p)
      BY <1>1, <1>6, AfterGoto
    <2>2. FilesGone(p)'
      BY <1>1, <1>6, <2>1 DEF FilesGone, OuterSteps
    <2>3. InputsTracked(p)' /\ PlanTracked(p)'
      BY <2>1 DEF InputsTracked, PlanTracked
    <2> QED BY <1>3, <2>1, <2>2, <2>3, MoveKeepsSoleInv
  <1>7. CASE DropSaved(p)
    BY <1>1, <1>2, <1>4, <1>6, <1>7 DEF DropSaved, RemoveArtifact, SPTypeOK
  <1>8. CASE UndoSaved(p)
    BY <1>1, <1>2, <1>4, <1>5, <1>6, <1>8 DEF UndoSaved, RemoveArtifact, SPTypeOK
  <1> QED BY <1>7, <1>8

\* An error exit of the closure: the undo starts, or there is nothing to undo.
LEMMA UndoKeepsSoleInv ==
  ASSUME NEW p \in Planners, Planners = {p}, SoleInv(p), SPTypeOK', UndoSave(p),
         pl[p].pc \in RunSteps, UNCHANGED <<plans, churn>>,
         \A r \in Roots : /\ tfplan'[r] \in {tfplan[r], Null}
                          /\ sources'[r] \in {sources[r], Null, Torn}
                          /\ attest'[r] \in {attest[r], Null, Torn}
  PROVE  SoleInv(p)'
  <1>1. SPTypeOK
    BY DEF SoleInv
  <1>2. CASE pl[p].save
    <2>1. pl'[p].pc = "undoPlan"
      BY <1>1, <1>2, AfterGoto DEF UndoSave
    <2>2. FilesGone(p)' /\ InputsTracked(p)' /\ PlanTracked(p)'
      BY <2>1 DEF FilesGone, InputsTracked, PlanTracked, OuterSteps
    <2> QED BY <2>1, <2>2, MoveKeepsSoleInv
  <1>3. CASE ~pl[p].save
    BY <1>3, FailKeepsSoleInv DEF UndoSave
  <1> QED BY <1>2, <1>3

LEMMA ReadKeepsSoleInv ==
  ASSUME NEW p \in Planners, Planners = {p}, SoleInv(p), SPTypeOK',
         \/ PlanRoot(p) \/ SelectTargets(p) \/ CaptureReference(p) \/ CaptureInitSources(p)
         \/ CheckInitSources(p) \/ CheckReferenceAfterInit(p) \/ Fingerprint(p)
         \/ ConfirmReference(p) \/ DigestPlan(p) \/ CheckFingerprint(p) \/ CheckPlanFile(p)
         \/ OuterFails(p)
  PROVE  SoleInv(p)'
  <1> DEFINE r == root(p)
  <1>1. /\ SPTypeOK /\ pl[p] \in PlannerFields
        /\ pl[p].pc \notin {"idle", "root", "done", "failed"} => r \in Roots
        /\ FilesGone(p) /\ InputsTracked(p) /\ PlanTracked(p) /\ IdsGiven
    BY InnerState DEF SoleInv
  <1>2. /\ UNCHANGED <<inputs, tfplan, sources, attest, epoch, churn, cl, plans, edits>>
        /\ \A s \in Roots : /\ tfplan'[s] \in {tfplan[s], Null}
                            /\ sources'[s] \in {sources[s], Null, Torn}
                            /\ attest'[s] \in {attest[s], Null, Torn}
    BY DEF PlanRoot, SelectTargets, CaptureReference, CaptureInitSources, CheckInitSources,
           CheckReferenceAfterInit, Fingerprint, ConfirmReference, DigestPlan,
           CheckFingerprint, CheckPlanFile, OuterFails, worldVars, historyVars
  <1>3. ASSUME NEW planned, NextRoot(p, planned)
        PROVE  SoleInv(p)'
    <2>1. pl'[p].pc = "root"
      BY <1>1, <1>3, AfterNextRoot
    <2>2. FilesGone(p)' /\ InputsTracked(p)' /\ PlanTracked(p)'
      BY <2>1 DEF FilesGone, InputsTracked, PlanTracked, OuterSteps
    <2> QED BY <1>2, <2>1, <2>2, MoveKeepsSoleInv
  <1>4. ASSUME UndoSave(p), pl[p].pc \in RunSteps
        PROVE  SoleInv(p)'
    BY <1>2, <1>4, UndoKeepsSoleInv
  <1>5. ASSUME Fails(p, FALSE), pl[p].pc \in OuterSteps \/ pl[p].i > Len(Order)
        PROVE  SoleInv(p)'
    <2>1. CASE pl[p].pc \in OuterSteps
      <3>1. pl[p].save => tfplan'[r] = Null /\ sources'[r] = Null /\ attest'[r] = Null
        BY <1>1, <1>2, <2>1 DEF FilesGone
      <3> QED BY <1>2, <1>5, <2>1, <3>1, FailKeepsSoleInv
    <2>2. CASE pl[p].i > Len(Order)
      BY <1>2, <1>5, <2>2, FailKeepsSoleInv
    <2> QED BY <1>5, <2>1, <2>2
  \* The planner moves on; its root, options and scope stay.
  <1>6. ASSUME pl'[p].i = pl[p].i, pl'[p].save = pl[p].save, pl'[p].pc # "failed",
               FilesGone(p)', InputsTracked(p)', PlanTracked(p)'
        PROVE  SoleInv(p)'
    BY <1>2, <1>6, MoveKeepsSoleInv
  \* A step among those before the plan, where the files are gone.
  <1>7. ASSUME pl'[p].i = pl[p].i, pl'[p].save = pl[p].save,
               pl[p].pc \in OuterSteps \cup {"init", "initCheck", "refAfter", "fingerprint"},
               pl'[p].pc \in OuterSteps \cup {"init", "initCheck", "refAfter", "fingerprint"}
                               \/ (~pl[p].save /\ pl'[p].pc = "refConfirm")
        PROVE  SoleInv(p)'
    <2>1. root(p)' = root(p)
      BY <1>7 DEF root
    <2>2. FilesGone(p)'
      BY <1>1, <1>2, <1>7, <2>1 DEF FilesGone, OuterSteps
    <2>3. InputsTracked(p)' /\ PlanTracked(p)'
      BY <1>7 DEF InputsTracked, PlanTracked, OuterSteps
    <2> QED BY <1>6, <1>7, <2>2, <2>3 DEF OuterSteps
  <1>11. CASE PlanRoot(p)
    <2>1. CASE Goto(p, "done") \/ Goto(p, "dropPlan")
               \/ (~pl[p].save /\ Goto(p, "select"))
      <3>1. pl'[p].i = pl[p].i /\ pl'[p].save = pl[p].save
            /\ (pl'[p].pc \in {"done", "dropPlan"} \/ (~pl[p].save /\ pl'[p].pc = "select"))
        BY <1>1, <2>1, AfterGoto
      <3>2. FilesGone(p)' /\ InputsTracked(p)' /\ PlanTracked(p)'
        BY <3>1 DEF FilesGone, InputsTracked, PlanTracked, OuterSteps
      <3> QED BY <1>6, <3>1, <3>2
    <2>2. CASE pl[p].i > Len(Order)
      BY <1>5, <1>11, <2>1, <2>2 DEF PlanRoot
    <2>3. CASE ~(pl[p].i > Len(Order))
      BY <1>3, <1>11, <2>1, <2>3 DEF PlanRoot
    <2> QED BY <2>2, <2>3
  <1>12. CASE SelectTargets(p)
    <2>1. CASE pl'[p].pc = "refSeen" /\ pl'[p].i = pl[p].i /\ pl'[p].save = pl[p].save
      BY <1>7, <1>12, <2>1 DEF SelectTargets, OuterSteps
    <2>2. pl' = [pl EXCEPT ![p].pc = "refSeen",
                           ![p].targets = IF pl[p].importsOnly THEN StagedTargets(r) ELSE {}]
            => pl'[p].pc = "refSeen" /\ pl'[p].i = pl[p].i /\ pl'[p].save = pl[p].save
      BY <1>1 DEF SPTypeOK, PlannerFields
    <2>3. CASE Fails(p, FALSE)
      BY <1>5, <1>12, <2>3 DEF SelectTargets, OuterSteps
    <2> QED BY <1>3, <1>12, <2>1, <2>2, <2>3 DEF SelectTargets
  <1>13. CASE CaptureReference(p)
    <2>1. /\ pl'[p].i = pl[p].i /\ pl'[p].save = pl[p].save
          /\ pl'[p].pc \in {"capture", "init"}
      BY <1>1, <1>13 DEF CaptureReference, SPTypeOK, PlannerFields
    <2> QED BY <1>7, <1>13, <2>1 DEF CaptureReference, OuterSteps
  <1>14. CASE CaptureInitSources(p)
    <2>1. /\ pl'[p].i = pl[p].i /\ pl'[p].save = pl[p].save /\ pl'[p].pc = "init"
      BY <1>1, <1>14 DEF CaptureInitSources, SPTypeOK, PlannerFields
    <2> QED BY <1>7, <1>14, <2>1 DEF CaptureInitSources, OuterSteps
  <1>15. CASE CheckInitSources(p)
    <2>1. CASE Goto(p, "refAfter")
      BY <1>1, <1>7, <1>15, <2>1, AfterGoto DEF CheckInitSources
    <2> QED BY <1>4, <1>15, <2>1 DEF CheckInitSources, RunSteps
  <1>16. CASE CheckReferenceAfterInit(p)
    <2>1. CASE pl[p].save /\ Goto(p, "fingerprint")
      BY <1>1, <1>7, <1>16, <2>1, AfterGoto DEF CheckReferenceAfterInit
    <2>2. CASE ~pl[p].save /\ Goto(p, "refConfirm")
      BY <1>1, <1>7, <1>16, <2>2, AfterGoto DEF CheckReferenceAfterInit
    <2> QED BY <1>4, <1>16, <2>1, <2>2 DEF CheckReferenceAfterInit, RunSteps
  <1>17. CASE Fingerprint(p)
    <2>1. /\ pl'[p].i = pl[p].i /\ pl'[p].save = pl[p].save /\ pl'[p].pc = "refConfirm"
          /\ pl'[p].fp = inputs[r] /\ pl'[p].since = epoch[r]
      BY <1>1, <1>17 DEF Fingerprint, PlanSources, SPTypeOK, PlannerFields
    <2>2. root(p)' = r
      BY <2>1 DEF root
    <2>3. FilesGone(p)'
      BY <1>1, <1>2, <1>17, <2>1, <2>2 DEF FilesGone, Fingerprint, OuterSteps
    <2>4. epoch[r] \in Nat
      BY <1>1, <1>17 DEF Fingerprint, SPTypeOK
    <2>5. InputsTracked(p)' /\ PlanTracked(p)'
      BY <1>2, <2>1, <2>2, <2>4 DEF InputsTracked, PlanTracked
    <2> QED BY <1>6, <2>1, <2>3, <2>5
  <1>18. CASE ConfirmReference(p)
    <2>1. CASE Goto(p, "plan")
      <3>1. /\ pl'[p].pc = "plan" /\ pl'[p].i = pl[p].i /\ pl'[p].save = pl[p].save
            /\ pl'[p].fp = pl[p].fp /\ pl'[p].since = pl[p].since /\ root(p)' = r
        BY <1>1, <2>1, AfterGoto
      <3>2. FilesGone(p)' /\ InputsTracked(p)' /\ PlanTracked(p)'
        BY <1>1, <1>2, <1>18, <3>1
           DEF FilesGone, InputsTracked, PlanTracked, ConfirmReference, OuterSteps
      <3> QED BY <1>6, <3>1, <3>2
    <2> QED BY <1>4, <1>18, <2>1 DEF ConfirmReference, RunSteps
  <1>19. CASE DigestPlan(p)
    <2>1. CASE tfplan[r] # Null
      <3>1. /\ pl'[p].pc = "attest" /\ pl'[p].i = pl[p].i /\ pl'[p].save = pl[p].save
            /\ pl'[p].fp = pl[p].fp /\ pl'[p].since = pl[p].since
            /\ pl'[p].targets = pl[p].targets /\ pl'[p].sha = tfplan[r].id
        BY <1>1, <1>19, <2>1 DEF DigestPlan, SPTypeOK, PlannerFields
      <3>2. root(p)' = r
        BY <3>1 DEF root
      <3>3. FilesGone(p)' /\ InputsTracked(p)'
        BY <1>1, <1>2, <1>19, <3>1, <3>2
           DEF FilesGone, InputsTracked, DigestPlan, OuterSteps
      <3>4. PlanTracked(p)'
        BY <1>1, <1>2, <1>19, <2>1, <3>1, <3>2 DEF PlanTracked, DigestPlan
      <3> QED BY <1>6, <3>1, <3>3, <3>4
    <2> QED BY <1>4, <1>19, <2>1 DEF DigestPlan, RunSteps
  <1>20. CASE CheckFingerprint(p)
    <2>1. CASE PlanSources(r) = pl[p].fp
      <3>1. /\ pl'[p].pc = "isFile" /\ pl'[p].i = pl[p].i /\ pl'[p].save = pl[p].save
            /\ pl'[p].fp = pl[p].fp /\ pl'[p].seen = epoch[r] - pl[p].since
            /\ pl'[p].sha = pl[p].sha
        BY <1>1, <1>20, <2>1 DEF CheckFingerprint, SPTypeOK, PlannerFields
      <3>2. root(p)' = r
        BY <3>1 DEF root
      <3>3. /\ epoch[r] \in Nat /\ pl[p].since \in Nat /\ inputs[r] = pl[p].fp
        BY <1>1, <1>20, <2>1 DEF CheckFingerprint, PlanSources, SPTypeOK, PlannerFields
      <3>4. FilesGone(p)' /\ PlanTracked(p)'
        BY <1>1, <1>2, <1>20, <3>1, <3>2
           DEF FilesGone, PlanTracked, CheckFingerprint, OuterSteps
      <3>5. InputsTracked(p)'
        BY <1>1, <1>2, <1>20, <3>1, <3>2, <3>3 DEF InputsTracked, CheckFingerprint
      <3> QED BY <1>6, <3>1, <3>4, <3>5
    <2> QED BY <1>4, <1>20, <2>1 DEF CheckFingerprint, RunSteps
  <1>21. CASE CheckPlanFile(p)
    <2>1. CASE Goto(p, "sources")
      <3>1. /\ pl'[p].pc = "sources" /\ pl'[p].i = pl[p].i /\ pl'[p].save = pl[p].save
            /\ pl'[p].fp = pl[p].fp /\ pl'[p].seen = pl[p].seen /\ root(p)' = r
            /\ pl'[p].sha = pl[p].sha
        BY <1>1, <2>1, AfterGoto
      <3>2. FilesGone(p)' /\ InputsTracked(p)' /\ PlanTracked(p)'
        BY <1>1, <1>2, <1>21, <3>1
           DEF FilesGone, InputsTracked, PlanTracked, CheckPlanFile, OuterSteps
      <3> QED BY <1>6, <3>1, <3>2
    <2> QED BY <1>4, <1>21, <2>1 DEF CheckPlanFile, RunSteps
  <1>22. CASE OuterFails(p)
    BY <1>5, <1>22 DEF OuterFails
  <1> QED BY <1>11, <1>12, <1>13, <1>14, <1>15, <1>16, <1>17, <1>18, <1>19, <1>20, <1>21, <1>22

LEMMA WriteKeepsSoleInv ==
  ASSUME NEW p \in Planners, Planners = {p}, SoleInv(p), SPTypeOK',
         \/ Initialize(p) \/ TerraformPlan(p) \/ WriteAttestation(p) \/ WriteSources(p)
         \/ RunFails(p)
  PROVE  SoleInv(p)'
  <1> DEFINE r == root(p)
  <1>1. /\ SPTypeOK /\ pl[p] \in PlannerFields /\ r \in Roots
        /\ pl[p].pc \in RunSteps
        /\ FilesGone(p) /\ InputsTracked(p) /\ PlanTracked(p) /\ IdsGiven
        /\ SourcesBindPlan /\ AttestationTellsScope
    BY InnerState DEF SoleInv, Initialize, TerraformPlan, WriteAttestation, WriteSources,
                      RunFails, RunSteps
  <1>2. CASE Initialize(p)
    <2>1. /\ pl'[p].pc \in {"initCheck", "refAfter"} /\ root(p)' = r
          /\ pl'[p].save = pl[p].save /\ pl'[p].i = pl[p].i
      BY <1>1, <1>2, AfterGoto DEF Initialize
    <2>2. UNCHANGED <<tfplan, sources, attest, churn, plans>>
      BY <1>2 DEF Initialize
    <2>3. FilesGone(p)' /\ InputsTracked(p)' /\ PlanTracked(p)'
      BY <1>1, <1>2, <2>1, <2>2 DEF FilesGone, InputsTracked, PlanTracked, Initialize, OuterSteps
    <2> QED BY <2>1, <2>2, <2>3, MoveKeepsSoleInv
  <1>3. CASE TerraformPlan(p)
    <2>1. CASE ~pl[p].save
      <3>1. UNCHANGED <<tfplan, sources, attest, churn, plans>> /\ pl'[p].pc = "root"
        BY <1>1, <1>3, <2>1, AfterNextRoot DEF TerraformPlan, PlanDone, historyVars
      <3>2. FilesGone(p)' /\ InputsTracked(p)' /\ PlanTracked(p)'
        BY <3>1 DEF FilesGone, InputsTracked, PlanTracked, OuterSteps
      <3> QED BY <3>1, <3>2, MoveKeepsSoleInv
    <2>2. CASE pl[p].save
      <3>1. PICK b \in PlanBodies(pl[p].targets) :
              tfplan' = [tfplan EXCEPT ![r] = [id |-> plans', from |-> inputs[r],
                                               targets |-> pl[p].targets, body |-> b]]
        BY <1>3, <2>2 DEF TerraformPlan
      <3>2. /\ pl'[p].pc = "sha" /\ pl'[p].i = pl[p].i /\ pl'[p].save = pl[p].save
            /\ pl'[p].fp = pl[p].fp /\ pl'[p].since = pl[p].since
            /\ pl'[p].targets = pl[p].targets /\ root(p)' = r
        BY <1>1, <1>3, <2>2, AfterGoto DEF TerraformPlan
      <3>3. /\ UNCHANGED <<inputs, sources, attest, epoch, churn>>
            /\ plans' = plans + 1 /\ plans \in Nat
        BY <1>1, <1>3, <2>2 DEF TerraformPlan, SPTypeOK, historyVars
      <3>4. /\ tfplan'[r].id = plans + 1 /\ tfplan'[r].from = inputs[r]
            /\ tfplan'[r].targets = pl[p].targets
            /\ \A s \in Roots : s # r => tfplan'[s] = tfplan[s]
        BY <1>1, <3>1, <3>3 DEF SPTypeOK
      <3>5. sources[r] = Null /\ attest[r] = Null
        BY <1>1, <1>3, <2>2 DEF FilesGone, TerraformPlan
      <3>6. FilesGone(p)' /\ PlanTracked(p)'
        <4>1. \A s \in Roots : tfplan[s] # Null => tfplan[s].id < plans + 1
          BY <1>1 DEF IdsGiven
        <4>2. FilesGone(p)'
          BY <2>2, <3>2, <3>3, <3>4, <3>5 DEF FilesGone, OuterSteps
        <4>3. PlanTracked(p)'
          BY <3>2, <3>3, <3>4, <4>1 DEF PlanTracked
        <4> QED BY <4>2, <4>3
      <3>7. InputsTracked(p)'
        <4>1. /\ epoch[r] \in Nat /\ pl[p].since \in Nat
              /\ epoch[r] >= pl[p].since
              /\ epoch[r] = pl[p].since => inputs[r] = pl[p].fp
          BY <1>1, <1>3, <2>2 DEF InputsTracked, TerraformPlan, SPTypeOK, PlannerFields
        <4>2. \/ tfplan'[r].from = pl[p].fp
              \/ epoch[r] > pl[p].since + 1
              \/ epoch[r] = pl[p].since + 1 /\ inputs[r] = tfplan'[r].from
          BY <3>4, <4>1
        <4> QED BY <3>2, <3>3, <4>2 DEF InputsTracked
      <3>8. IdsGiven'
        <4>1. \A s \in Roots : /\ tfplan[s] # Null => tfplan[s].id \in Nat
                               /\ attest[s] \notin {Null, Torn} => attest[s].plan \in Nat
          BY <1>1 DEF SPTypeOK, SavedPlans, Attestations
        <4>2. plans' \in 0..MaxPlans
          BY <1>3, <2>2, <3>3, SavedPlanAssumption DEF TerraformPlan
        <4> QED BY <1>1, <3>3, <3>4, <4>1, <4>2 DEF IdsGiven
      <3>9. SourcesBindPlan'
        BY <1>1, <3>3, <3>4, <3>5 DEF SourcesBindPlan, Declared
      <3>10. AttestationTellsScope'
        BY <1>1, <3>3, <3>4, <3>5 DEF AttestationTellsScope
      <3>11. FailedSaveLeavesNothing'
        BY <3>2 DEF FailedSaveLeavesNothing
      <3>12. SPTypeOK'
        OBVIOUS
      <3> QED BY <3>6, <3>7, <3>8, <3>9, <3>10, <3>11, <3>12 DEF SoleInv
    <2> QED BY <2>1, <2>2
  <1>4. CASE WriteAttestation(p)
    <2>1. /\ pl'[p].pc = "fpCheck" /\ pl'[p].i = pl[p].i /\ pl'[p].save = pl[p].save
          /\ pl'[p].fp = pl[p].fp /\ pl'[p].since = pl[p].since /\ root(p)' = r
          /\ pl'[p].sha = pl[p].sha
      BY <1>1, <1>4, AfterGoto DEF WriteAttestation
    <2>2. /\ UNCHANGED <<inputs, tfplan, sources, epoch, churn, plans>>
          /\ attest'[r] = [plan |-> pl[p].sha, targets |-> pl[p].targets]
          /\ \A s \in Roots : s # r => attest'[s] = attest[s]
      BY <1>1, <1>4 DEF WriteAttestation, SPTypeOK, historyVars
    <2>3. FilesGone(p)' /\ InputsTracked(p)' /\ PlanTracked(p)'
      BY <1>1, <1>4, <2>1, <2>2
         DEF FilesGone, InputsTracked, PlanTracked, WriteAttestation, OuterSteps
    <2>4. IdsGiven'
      <3>1. pl[p].sha = plans /\ plans \in 1..plans
        BY <1>1, <1>4 DEF PlanTracked, IdsGiven, WriteAttestation
      <3>2. attest'[r].plan = plans
        BY <2>2, <3>1
      <3> QED BY <1>1, <2>2, <3>1, <3>2 DEF IdsGiven
    <2>5. SourcesBindPlan'
      BY <1>1, <2>2 DEF SourcesBindPlan, Declared
    <2>6. AttestationTellsScope'
      BY <1>1, <1>4, <2>2 DEF AttestationTellsScope, PlanTracked, WriteAttestation
    <2>7. FailedSaveLeavesNothing' /\ SPTypeOK'
      BY <2>1 DEF FailedSaveLeavesNothing
    <2> QED BY <2>3, <2>4, <2>5, <2>6, <2>7 DEF SoleInv
  <1>5. CASE WriteSources(p)
    <2>1. pl'[p].pc = "root"
      BY <1>1, <1>5, AfterNextRoot DEF WriteSources, PlanDone
    <2>2. /\ UNCHANGED <<inputs, tfplan, attest, epoch, plans>>
          /\ sources'[r] = pl[p].fp /\ churn'[plans] = pl[p].seen
          /\ \A s \in Roots : s # r => sources'[s] = sources[s]
          /\ \A n \in 1..MaxPlans : n # plans => churn'[n] = churn[n]
      <3>1. pl[p].sha = plans /\ plans \in 1..MaxPlans
        BY <1>1, <1>5 DEF PlanTracked, IdsGiven, WriteSources
      <3> QED BY <1>1, <1>5, <3>1 DEF WriteSources, SPTypeOK
    <2>3. FilesGone(p)' /\ InputsTracked(p)' /\ PlanTracked(p)' /\ IdsGiven'
      BY <1>1, <2>1, <2>2 DEF FilesGone, InputsTracked, PlanTracked, IdsGiven, OuterSteps
    <2>4. SourcesBindPlan'
      <3>1. ASSUME NEW s \in Roots, tfplan[s] # Null, Declared(s)'
            PROVE  tfplan[s].from = sources'[s] \/ churn'[tfplan[s].id] >= 2
        <4>1. CASE s = r
          <5>1. tfplan[r].id = plans
            BY <1>1, <1>5, <3>1, <4>1 DEF PlanTracked, WriteSources
          <5>2. tfplan[r].from = pl[p].fp \/ pl[p].seen >= 2
            BY <1>1, <1>5, <3>1, <4>1 DEF InputsTracked, WriteSources
          <5> QED BY <2>2, <4>1, <5>1, <5>2
        <4>2. CASE s # r
          <5>1. tfplan[s].id < plans /\ tfplan[s].id \in 1..plans /\ plans \in 0..MaxPlans
            BY <1>1, <1>5, <3>1, <4>2 DEF PlanTracked, IdsGiven, WriteSources
          <5>2. tfplan[s].id \in 1..MaxPlans /\ tfplan[s].id # plans
            BY <5>1, SavedPlanAssumption
          <5>3. Declared(s)
            BY <2>2, <3>1, <4>2 DEF Declared
          <5> QED BY <1>1, <2>2, <3>1, <4>2, <5>2, <5>3 DEF SourcesBindPlan
        <4> QED BY <4>1, <4>2
      <3> QED BY <2>2, <3>1 DEF SourcesBindPlan
    <2>5. AttestationTellsScope' /\ FailedSaveLeavesNothing' /\ SPTypeOK'
      BY <1>1, <2>1, <2>2 DEF AttestationTellsScope, FailedSaveLeavesNothing
    <2> QED BY <2>3, <2>4, <2>5 DEF SoleInv
  <1>6. CASE RunFails(p)
    <2>1. /\ UNCHANGED <<plans, churn>>
          /\ \A s \in Roots : /\ tfplan'[s] \in {tfplan[s], Null}
                              /\ sources'[s] \in {sources[s], Null, Torn}
                              /\ attest'[s] \in {attest[s], Null, Torn}
      BY <1>1, <1>6 DEF RunFails, TearWrite, SPTypeOK, historyVars
    <2> QED BY <1>1, <1>6, <2>1, UndoKeepsSoleInv DEF RunFails
  <1> QED BY <1>2, <1>3, <1>4, <1>5, <1>6

LEMMA SoleInvStep ==
  ASSUME NEW p \in Planners, Planners = {p}, SoleInv(p), [SPNext]_spVars
  PROVE  SoleInv(p)'
  <1>1. SPTypeOK /\ SPTypeOK'
    BY SPNextType DEF SoleInv
  <1>2. CASE UNCHANGED spVars
    BY <1>2 DEF spVars, SoleInv, SPTypeOK, FilesGone, InputsTracked, PlanTracked, IdsGiven,
                SourcesBindPlan, AttestationTellsScope, FailedSaveLeavesNothing, Declared, root
  <1>3. CASE CleanerNext
    BY <1>1, <1>3, OthersKeepSoleInv
       DEF CleanerNext, StartClean, CleanFile, CleanerStops, worldVars, historyVars, SPTypeOK
  <1>4. CASE Editor
    BY <1>1, <1>4, OthersKeepSoleInv DEF Editor, EditInputs, ChangeInputs, SPTypeOK
  <1>5. CASE PlannerNext(p)
    <2>1. ASSUME NEW o \in Invocations, StartPlan(p, o.save, o.importsOnly)
          PROVE  SoleInv(p)'
      <3>1. /\ pl'[p].pc = "root" /\ UNCHANGED <<tfplan, sources, attest, plans, churn>>
        BY <1>1, <2>1 DEF StartPlan, PlannerIdle, SPTypeOK, worldVars, historyVars
      <3>2. FilesGone(p)' /\ InputsTracked(p)' /\ PlanTracked(p)'
        BY <3>1 DEF FilesGone, InputsTracked, PlanTracked, OuterSteps
      <3> QED BY <1>1, <3>1, <3>2, MoveKeepsSoleInv
    <2>2. CASE PlannerCrash(p)
      <3>1. /\ pl'[p].pc = "idle" /\ UNCHANGED <<plans, churn>>
            /\ \A r \in Roots : /\ tfplan'[r] \in {tfplan[r], Null}
                                /\ sources'[r] \in {sources[r], Null, Torn}
                                /\ attest'[r] \in {attest[r], Null, Torn}
        BY <1>1, <2>2 DEF PlannerCrash, TearWrite, PlannerIdle, SPTypeOK, historyVars
      <3>2. FilesGone(p)' /\ InputsTracked(p)' /\ PlanTracked(p)'
        BY <3>1 DEF FilesGone, InputsTracked, PlanTracked, OuterSteps
      <3> QED BY <1>1, <3>1, <3>2, MoveKeepsSoleInv
    <2> QED BY <1>1, <1>5, <2>1, <2>2, RemoveKeepsSoleInv, ReadKeepsSoleInv, WriteKeepsSoleInv
            DEF PlannerNext, PlannerStep
  <1> QED BY <1>2, <1>3, <1>4, <1>5 DEF SPNext

LEMMA SoleInvInit ==
  ASSUME NEW p \in Planners, Planners = {p}, SPInit
  PROVE  SoleInv(p)
  <1>1. /\ pl[p].pc = "idle"
        /\ \A r \in Roots : tfplan[r] = Null /\ attest[r] = Null
    BY DEF SPInit, PlannerIdle
  <1>2. FilesGone(p) /\ InputsTracked(p) /\ PlanTracked(p)
    BY <1>1, NothingTracked
  <1>3. IdsGiven /\ SourcesBindPlan /\ AttestationTellsScope /\ FailedSaveLeavesNothing
    BY <1>1, SavedPlanAssumption
       DEF SPInit, IdsGiven, SourcesBindPlan, AttestationTellsScope, FailedSaveLeavesNothing
  <1> QED BY <1>2, <1>3, SPInitType DEF SoleInv

\* With one `iw plan` at a time, and whatever clean-plans, editors, failures
\* and kills do: a plan and a declaration left together agree, unless the
\* inputs changed away and back while the plan was made.
THEOREM SavedPairDeclaresItsInputs ==
  ASSUME NEW CONSTANT p, Planners = {p}
  PROVE  SPSpec => []SourcesBindPlan
  <1>1. SPInit => SoleInv(p)
    BY SoleInvInit
  <1>2. SoleInv(p) /\ [SPNext]_spVars => SoleInv(p)'
    BY SoleInvStep
  <1>3. SoleInv(p) => SourcesBindPlan
    BY DEF SoleInv
  <1> QED BY <1>1, <1>2, <1>3, PTL DEF SPSpec

\* Under the same assumption, an attestation that binds the saved bytes tells
\* the scope they were planned with.
THEOREM AttestationIsTrue ==
  ASSUME NEW CONSTANT p, Planners = {p}
  PROVE  SPSpec => []AttestationTellsScope
  <1>1. SPInit => SoleInv(p)
    BY SoleInvInit
  <1>2. SoleInv(p) /\ [SPNext]_spVars => SoleInv(p)'
    BY SoleInvStep
  <1>3. SoleInv(p) => AttestationTellsScope
    BY DEF SoleInv
  <1> QED BY <1>1, <1>2, <1>3, PTL DEF SPSpec

\* Under the same assumption, a failed save leaves none of the three files of
\* the root it stopped at, unless it could not remove one.
THEOREM FailedSaveIsUndone ==
  ASSUME NEW CONSTANT p, Planners = {p}
  PROVE  SPSpec => []FailedSaveLeavesNothing
  <1>1. SPInit => SoleInv(p)
    BY SoleInvInit
  <1>2. SoleInv(p) /\ [SPNext]_spVars => SoleInv(p)'
    BY SoleInvStep
  <1>3. SoleInv(p) => FailedSaveLeavesNothing
    BY DEF SoleInv
  <1> QED BY <1>1, <1>2, <1>3, PTL DEF SPSpec

-----------------------------------------------------------------------------
(* What every step keeps of a plan that was once saved, for the processes   *)
(* that bind it as evidence.                                                *)

\* From its creation to its declaration a plan is the planner's own.
OwnSteps == {"sha", "attest", "fpCheck", "isFile", "sources"}

\* Plan x was once saved in root r: no other plan has or gets its identity, and
\* who attests that identity tells the scope of x.
KnownPlan(p, r, x) ==
    /\ x.id \in 1..plans
    /\ tfplan[r] # Null /\ tfplan[r].id = x.id => tfplan[r] = x
    /\ attest[r] \notin {Null, Torn} /\ attest[r].plan = x.id => attest[r].targets = x.targets
    /\ pl[p].pc \in {"sha", "attest"} /\ root(p) = r /\ plans = x.id => pl[p].targets = x.targets

\* src declares the inputs of plan x, for good: its planner is done with it.
DeclaredBy(p, x, src) ==
    /\ x.from = src \/ churn[x.id] >= 2
    /\ pl[p].pc \in OwnSteps => plans # x.id

\* What no step takes back: a plan once saved is known, its declaration stands,
\* and a plan that is gone does not return.
WorldKeeps(p) ==
    \A r \in Roots, x \in SavedPlans \ {Null} :
      x.id \in 1..plans =>
        /\ x.id \in 1..plans'
        /\ KnownPlan(p, r, x) => KnownPlan(p, r, x)'
        /\ \A src : DeclaredBy(p, x, src) => DeclaredBy(p, x, src)'
        /\ tfplan'[r] = x => tfplan[r] = x

\* A planner does not come to a plan of its own, other than by planning.
OwnStays(p) ==
    /\ pl'[p].pc \in OwnSteps => pl[p].pc \in OwnSteps
    /\ pl'[p].pc \in {"sha", "attest"}
         => /\ pl[p].pc \in {"sha", "attest"} /\ root(p)' = root(p)
            /\ pl'[p].targets = pl[p].targets

\* Files disappear, the planner stays.
LEMMA QuietWorld ==
  ASSUME NEW p \in Planners, UNCHANGED <<pl, plans, churn>>,
         \A r \in Roots : tfplan'[r] \in {tfplan[r], Null} /\ attest'[r] \in {attest[r], Null}
  PROVE  WorldKeeps(p)
  BY DEF WorldKeeps, KnownPlan, DeclaredBy, root

\* The planner writes at most what it holds.
LEMMA PlannerWorld ==
  ASSUME NEW p \in Planners, SoleInv(p), UNCHANGED plans,
         \A r \in Roots : tfplan'[r] \in {tfplan[r], Null},
         \A r \in Roots :
           \/ attest'[r] \in {attest[r], Null, Torn}
           \/ /\ pl[p].pc = "attest" /\ r = root(p)
              /\ attest'[r] = [plan |-> pl[p].sha, targets |-> pl[p].targets],
         \A n \in 1..MaxPlans :
           churn'[n] = churn[n] \/ (pl[p].pc = "sources" /\ n = pl[p].sha),
         OwnStays(p)
  PROVE  WorldKeeps(p)
  <1>1. /\ plans \in 0..MaxPlans /\ MaxPlans \in Nat
        /\ pl[p].pc \in {"attest", "fpCheck", "isFile", "sources"} => pl[p].sha = plans
    BY SavedPlanAssumption DEF SoleInv, IdsGiven, PlanTracked
  <1> SUFFICES ASSUME NEW r \in Roots, NEW x \in SavedPlans \ {Null}, x.id \in 1..plans
               PROVE  /\ KnownPlan(p, r, x) => KnownPlan(p, r, x)'
                      /\ \A src : DeclaredBy(p, x, src) => DeclaredBy(p, x, src)'
                      /\ tfplan'[r] = x => tfplan[r] = x
    BY DEF WorldKeeps
  <1>2. x.id \in 1..MaxPlans
    BY <1>1
  <1>3. KnownPlan(p, r, x) => KnownPlan(p, r, x)'
    <2> SUFFICES ASSUME KnownPlan(p, r, x)
                 PROVE  KnownPlan(p, r, x)'
      OBVIOUS
    <2>1. attest'[r] \notin {Null, Torn} /\ attest'[r].plan = x.id => attest'[r].targets = x.targets
      <3>1. CASE attest'[r] \in {attest[r], Null, Torn}
        BY <3>1 DEF KnownPlan
      <3>2. CASE /\ pl[p].pc = "attest" /\ r = root(p)
                 /\ attest'[r] = [plan |-> pl[p].sha, targets |-> pl[p].targets]
        BY <1>1, <3>2 DEF KnownPlan
      <3> QED BY <3>1, <3>2
    <2> QED BY <2>1 DEF KnownPlan, OwnStays
  <1>4. \A src : DeclaredBy(p, x, src) => DeclaredBy(p, x, src)'
    BY <1>1, <1>2 DEF DeclaredBy, OwnSteps, OwnStays
  <1> QED BY <1>3, <1>4

\* A new plan has an identity of its own.
LEMMA NewPlanWorld ==
  ASSUME NEW p \in Planners, plans \in Nat, plans' = plans + 1, UNCHANGED <<attest, churn>>,
         \A r \in Roots : tfplan'[r] = tfplan[r] \/ tfplan'[r].id = plans'
  PROVE  WorldKeeps(p)
  BY DEF WorldKeeps, KnownPlan, DeclaredBy

\* What the planner's steps do to the files and its history, the planning
\* itself left aside.
LEMMA PlannerFiles ==
  ASSUME SPTypeOK, NEW p \in Planners, PlannerNext(p), ~(TerraformPlan(p) /\ pl[p].save)
  PROVE  /\ UNCHANGED plans
         /\ \A r \in Roots : tfplan'[r] \in {tfplan[r], Null}
         /\ \A r \in Roots :
              \/ attest'[r] \in {attest[r], Null, Torn}
              \/ /\ pl[p].pc = "attest" /\ r = root(p)
                 /\ attest'[r] = [plan |-> pl[p].sha, targets |-> pl[p].targets]
         /\ \A n \in 1..MaxPlans :
              churn'[n] = churn[n] \/ (pl[p].pc = "sources" /\ n = pl[p].sha)
  <1>1. CASE UNCHANGED <<worldVars, historyVars, plans>>
    BY <1>1 DEF worldVars, historyVars
  <1>2. CASE DropSaved(p) \/ UndoSaved(p)
    BY <1>2 DEF DropSaved, UndoSaved, RemoveArtifact, SPTypeOK, historyVars
  <1>3. CASE Initialize(p) \/ TerraformPlan(p)
    BY <1>3 DEF Initialize, TerraformPlan, historyVars
  <1>4. CASE WriteAttestation(p)
    BY <1>4 DEF WriteAttestation, SPTypeOK, historyVars
  <1>5. CASE WriteSources(p)
    BY <1>5 DEF WriteSources, SPTypeOK
  <1>6. CASE RunFails(p) \/ PlannerCrash(p)
    BY <1>6 DEF RunFails, PlannerCrash, TearWrite, SPTypeOK, historyVars
  <1>7. CASE \/ PlanRoot(p) \/ SelectTargets(p) \/ CaptureReference(p) \/ CaptureInitSources(p)
             \/ CheckInitSources(p) \/ CheckReferenceAfterInit(p) \/ Fingerprint(p)
             \/ ConfirmReference(p) \/ DigestPlan(p) \/ CheckFingerprint(p) \/ CheckPlanFile(p)
             \/ OuterFails(p) \/ \E o \in Invocations : StartPlan(p, o.save, o.importsOnly)
    BY <1>1, <1>7
       DEF PlanRoot, SelectTargets, CaptureReference, CaptureInitSources, CheckInitSources,
           CheckReferenceAfterInit, Fingerprint, ConfirmReference, DigestPlan,
           CheckFingerprint, CheckPlanFile, OuterFails, StartPlan
  <1> QED BY <1>2, <1>3, <1>4, <1>5, <1>6, <1>7 DEF PlannerNext, PlannerStep

\* A plan of its own comes only from planning, its scope with it.
LEMMA PlannerMoves ==
  ASSUME SPTypeOK, NEW p \in Planners, PlannerNext(p), ~(TerraformPlan(p) /\ pl[p].save)
  PROVE  OwnStays(p)
  <1>0. pl[p] \in PlannerFields /\ pl \in [Planners -> PlannerStates]
    BY InnerState DEF SPTypeOK
  <1>1. ASSUME pl'[p].pc \notin OwnSteps
        PROVE  OwnStays(p)
    BY <1>1 DEF OwnStays, OwnSteps
  <1>2. ASSUME NEW planned, NextRoot(p, planned)
        PROVE  OwnStays(p)
    BY <1>1, <1>2, AfterNextRoot DEF OwnSteps
  <1>3. ASSUME NEW lost, Fails(p, lost)
        PROVE  OwnStays(p)
    BY <1>1, <1>3, AfterFails DEF OwnSteps
  <1>4. ASSUME NEW pc, Goto(p, pc), pc \notin OwnSteps
        PROVE  OwnStays(p)
    BY <1>1, <1>4, AfterGoto
  <1>5. ASSUME UndoSave(p)
        PROVE  OwnStays(p)
    BY <1>3, <1>4, <1>5 DEF UndoSave, OwnSteps
  <1>6. CASE PlanRoot(p) \/ DropSaved(p) \/ UndoSaved(p)
    BY <1>2, <1>3, <1>4, <1>6 DEF PlanRoot, DropSaved, UndoSaved, RemoveArtifact, OwnSteps
  <1>7. CASE SelectTargets(p)
    <2>1. CASE pl'[p].pc = "refSeen"
      BY <1>1, <2>1 DEF OwnSteps
    <2> QED BY <1>0, <1>2, <1>3, <1>7, <2>1 DEF SelectTargets, PlannerFields
  <1>8. CASE CaptureReference(p) \/ CaptureInitSources(p) \/ Fingerprint(p)
    <2>1. pl'[p].pc \in {"capture", "init", "refConfirm"}
      BY <1>0, <1>8 DEF CaptureReference, CaptureInitSources, Fingerprint, PlannerFields
    <2> QED BY <1>1, <2>1 DEF OwnSteps
  <1>9. CASE \/ Initialize(p) \/ CheckInitSources(p) \/ CheckReferenceAfterInit(p)
             \/ ConfirmReference(p)
    BY <1>4, <1>5, <1>9
       DEF Initialize, CheckInitSources, CheckReferenceAfterInit, ConfirmReference, OwnSteps
  <1>10. CASE TerraformPlan(p)
    BY <1>2, <1>10 DEF TerraformPlan, PlanDone
  <1>11. CASE DigestPlan(p)
    <2>1. CASE tfplan[root(p)] # Null
      <3>1. /\ pl[p].pc = "sha" /\ pl'[p].pc = "attest" /\ pl'[p].i = pl[p].i
            /\ pl'[p].targets = pl[p].targets
        BY <1>0, <1>11, <2>1 DEF DigestPlan, PlannerFields
      <3> QED BY <3>1 DEF OwnStays, OwnSteps, root
    <2> QED BY <1>5, <1>11, <2>1 DEF DigestPlan
  <1>12. CASE WriteAttestation(p)
    <2>1. pl[p].pc = "attest" /\ pl'[p].pc = "fpCheck"
      BY <1>12, AfterGoto DEF WriteAttestation
    <2> QED BY <2>1 DEF OwnStays, OwnSteps
  <1>13. CASE CheckFingerprint(p) \/ CheckPlanFile(p)
    <2>1. UndoSave(p) \/ (pl[p].pc \in OwnSteps /\ pl'[p].pc \in {"isFile", "sources"})
      BY <1>0, <1>13, AfterGoto DEF CheckFingerprint, CheckPlanFile, PlannerFields, OwnSteps
    <2>2. CASE pl[p].pc \in OwnSteps /\ pl'[p].pc \in {"isFile", "sources"}
      BY <2>2 DEF OwnStays, OwnSteps
    <2> QED BY <1>5, <2>1, <2>2
  <1>14. CASE WriteSources(p) \/ RunFails(p) \/ OuterFails(p)
    BY <1>2, <1>3, <1>5, <1>14 DEF WriteSources, PlanDone, RunFails, OuterFails
  <1>15. CASE PlannerCrash(p) \/ \E o \in Invocations : StartPlan(p, o.save, o.importsOnly)
    <2>1. PlannerIdle.pc = "idle"
      BY DEF PlannerIdle
    <2>2. PlannerCrash(p) => pl'[p].pc = "idle"
      BY <1>0, <2>1 DEF PlannerCrash
    <2>3. (\E o \in Invocations : StartPlan(p, o.save, o.importsOnly)) => pl'[p].pc = "root"
      BY <1>0 DEF StartPlan, PlannerIdle
    <2> QED BY <1>1, <1>15, <2>2, <2>3 DEF OwnSteps
  <1> QED BY <1>6, <1>7, <1>8, <1>9, <1>10, <1>11, <1>12, <1>13, <1>14, <1>15
          DEF PlannerNext, PlannerStep

LEMMA WorldStep ==
  ASSUME NEW p \in Planners, Planners = {p}, SoleInv(p), SPNext
  PROVE  WorldKeeps(p)
  <1>1. SPTypeOK
    BY DEF SoleInv
  <1>2. CASE CleanerNext
    BY <1>1, <1>2, QuietWorld
       DEF CleanerNext, StartClean, CleanFile, CleanerStops, worldVars, historyVars, SPTypeOK
  <1>3. CASE Editor
    BY <1>1, <1>3, QuietWorld DEF Editor, EditInputs
  <1>4. CASE TerraformPlan(p) /\ pl[p].save
    <2>1. plans' = plans + 1 /\ UNCHANGED <<attest, churn>> /\ plans \in Nat
      BY <1>1, <1>4 DEF TerraformPlan, historyVars, SPTypeOK
    <2>2. \A r \in Roots : tfplan'[r] = tfplan[r] \/ tfplan'[r].id = plans'
      BY <1>1, <1>4 DEF TerraformPlan, SPTypeOK
    <2> QED BY <2>1, <2>2, NewPlanWorld
  <1>5. CASE PlannerNext(p) /\ ~(TerraformPlan(p) /\ pl[p].save)
    <2>1. /\ UNCHANGED plans
          /\ \A r \in Roots : tfplan'[r] \in {tfplan[r], Null}
          /\ \A r \in Roots :
               \/ attest'[r] \in {attest[r], Null, Torn}
               \/ /\ pl[p].pc = "attest" /\ r = root(p)
                  /\ attest'[r] = [plan |-> pl[p].sha, targets |-> pl[p].targets]
          /\ \A n \in 1..MaxPlans :
               churn'[n] = churn[n] \/ (pl[p].pc = "sources" /\ n = pl[p].sha)
      BY <1>1, <1>5, PlannerFiles
    <2> QED BY <1>1, <1>5, <2>1, PlannerMoves, PlannerWorld
  <1> QED BY <1>2, <1>3, <1>4, <1>5 DEF SPNext

\* What the files of a root tell while evidence is prepared: the plan found is
\* known, and the latest one is declared once a declaration is there.
LEMMA SavedIsKnown ==
  ASSUME NEW p \in Planners, SoleInv(p), NEW r \in Roots, tfplan[r] # Null
  PROVE  /\ KnownPlan(p, r, tfplan[r])
         /\ Declared(r) => DeclaredBy(p, tfplan[r], sources[r])
  <1>1. KnownPlan(p, r, tfplan[r])
    BY DEF SoleInv, KnownPlan, IdsGiven, AttestationTellsScope, PlanTracked
  <1>2. ASSUME Declared(r)
        PROVE  DeclaredBy(p, tfplan[r], sources[r])
    <2>1. tfplan[r].from = sources[r] \/ churn[tfplan[r].id] >= 2
      BY <1>2 DEF SoleInv, SourcesBindPlan
    <2>2. ASSUME pl[p].pc \in OwnSteps
          PROVE  plans # tfplan[r].id
      <3>1. pl[p].save
        BY <2>2, InnerState DEF SoleInv, OwnSteps
      <3>2. r # root(p)
        BY <1>2, <2>2, <3>1 DEF SoleInv, FilesGone, Declared, OwnSteps
      <3> QED BY <2>2, <3>2 DEF SoleInv, PlanTracked, IdsGiven, OwnSteps
    <2> QED BY <2>1, <2>2 DEF DeclaredBy
  <1> QED BY <1>1, <1>2
=============================================================================
