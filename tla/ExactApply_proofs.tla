------------------------- MODULE ExactApply_proofs -------------------------
(***************************************************************************)
(* What `iw apply` hands to Terraform, for every workspace, plan, policy   *)
(* and combination of overrides, and what a whole run of it amounts to.    *)
(***************************************************************************)
EXTENDS ExactApply, SavedPlan_proofs, PlanEval_proofs

\* Before, while and after a root is worked on.
SelectPCs == {"idle", "policy", "controls", "bound", "materialize"}
OuterPCs  == SelectPCs \cup {"done", "failed"}

\* The snapshot is the plan it was taken from, or nothing anybody can apply.
SnapshotBound ==
    /\ ap.pc \in SelectPCs => ap.ev = NoEvidence
    /\ ap.pc \notin OuterPCs => ap.ev.copy \in {ap.ev.plan, Torn}
    /\ ap.ev.linked \/ ap.pc \in {"show", "gate"} \/ ap.final => ap.ev.plan # Null

\* The final recheck and what follows it are reached only through the gate,
\* which judged the bytes of the snapshot.
Gated ==
    /\ ap.pc \in {"fdCheck", "apply"} => ap.final
    /\ ap.pc \in OuterPCs \cup {"prepare", "init", "open", "show", "gate"} => ~ap.final
    /\ ap.pc = "gate" \/ ap.final => ap.ev.shown = ap.ev.plan.body
    /\ ap.final => ApplyGate(ap.ev.shown, ap.policy, Attested(ap.ev.att),
                             ap.opts.allowDestroy, ap.opts.allowPlanChanges)

\* Between the start of the final recheck and the apply, what was rechecked
\* either still holds or was changed by somebody since.
Rechecked(x) == ap.pc # "recheck" \/ \E j \in 1..(ap.k - 1) : RecheckScript[j] = x

ChangesSeen ==
    ap.final /\ ap.pc \in {"recheck", "fdCheck", "apply"}
      => /\ ap.pc = "recheck" => ap.k \in 1..Len(RecheckScript)
         /\ \A x \in Checks : Rechecked(x) => Holds(x) \/ x \in touched

ApplyInv ==
    /\ TypeOK /\ SnapshotBound /\ Gated /\ ChangesSeen
    /\ OnlyConsentedApplied /\ NoUnseenChangeAtApply

-----------------------------------------------------------------------------
(* The state of the process *)

LEMMA ApplyIdleType == ApplyIdle \in ApplyStates /\ NoEvidence \in Evidence
  <1>1. NoEvidence \in Evidence
    BY DEF NoEvidence, Evidence
  <1> QED BY <1>1 DEF ApplyIdle, ApplyStates, ApplyPCs, OptionSet

LEMMA ApplyFields ==
  ASSUME TypeOK
  PROVE  /\ ap.pc \in ApplyPCs /\ ap.k \in Nat /\ ap.i \in Nat /\ ap.final \in BOOLEAN
         /\ ap.selected \in SUBSET Roots /\ ap.ev \in Evidence
         /\ ap.policy \in Policies \cup {Null} /\ ap.controls \in Controls \cup {Null}
         /\ ap.applied \in Nat /\ ap.failing \in BOOLEAN /\ ap.opts \in OptionSet
         /\ ap.ev.src \in Fingerprints \cup {Null} /\ ap.ev.plan \in SavedPlans \cup {Null}
         /\ ap.ev.att \in Attestations \cup {Null}
         /\ ap.ev.copy \in SavedPlans \cup {Null, Torn}
         /\ ap.ev.linked \in BOOLEAN /\ ap.ev.shown \in Bodies \cup {Null}
         /\ ap.pc \notin OuterPCs => ap.i \in 1..Len(Order) /\ aroot \in Roots
  <1>1. /\ ap.pc \in ApplyPCs /\ ap.k \in Nat /\ ap.i \in Nat /\ ap.final \in BOOLEAN
        /\ ap.selected \in SUBSET Roots /\ ap.ev \in Evidence
        /\ ap.policy \in Policies \cup {Null} /\ ap.controls \in Controls \cup {Null}
        /\ ap.applied \in Nat /\ ap.failing \in BOOLEAN /\ ap.opts \in OptionSet
    BY DEF TypeOK, ApplyStates
  <1>2. /\ ap.ev.src \in Fingerprints \cup {Null} /\ ap.ev.plan \in SavedPlans \cup {Null}
        /\ ap.ev.att \in Attestations \cup {Null}
        /\ ap.ev.copy \in SavedPlans \cup {Null, Torn}
        /\ ap.ev.linked \in BOOLEAN /\ ap.ev.shown \in Bodies \cup {Null}
    BY <1>1 DEF Evidence
  <1>3. ap.pc \notin OuterPCs => ap.i \in 1..Len(Order) /\ aroot \in Roots
    BY OrderInRoots DEF TypeOK, OuterPCs, SelectPCs, aroot, ConstantRoots
  <1> QED BY <1>1, <1>2, <1>3

LEMMA AfterAGoto ==
  ASSUME TypeOK, NEW pc \in ApplyPCs, AGoto(pc)
  PROVE  /\ ap' \in ApplyStates /\ ap'.pc = pc
         /\ ap'.k = ap.k /\ ap'.i = ap.i /\ ap'.final = ap.final /\ ap'.selected = ap.selected
         /\ ap'.ev = ap.ev /\ ap'.policy = ap.policy /\ ap'.controls = ap.controls
         /\ ap'.opts = ap.opts /\ ap'.failing = ap.failing
  BY DEF AGoto, TypeOK, ApplyStates

LEMMA AfterRefuse ==
  ASSUME TypeOK, Refuse
  PROVE  /\ ap' \in ApplyStates /\ ap'.pc = "cleanup"
         /\ ap'.k = ap.k /\ ap'.i = ap.i /\ ap'.final = ap.final /\ ap'.selected = ap.selected
         /\ ap'.ev = ap.ev /\ ap'.policy = ap.policy /\ ap'.controls = ap.controls
         /\ ap'.opts = ap.opts /\ ap'.failing
  BY DEF Refuse, TypeOK, ApplyStates, ApplyPCs

\* A refusal keeps whatever holds of the process and its history.
LEMMA RefuseKeepsInv ==
  ASSUME ApplyInv, Refuse, SPTypeOK', ap.pc \notin OuterPCs,
         UNCHANGED <<external, log>>, touched' \in SUBSET Checks
  PROVE  ApplyInv'
  <1>1. /\ TypeOK /\ ap' \in ApplyStates /\ ap'.pc = "cleanup"
        /\ ap'.i = ap.i /\ ap'.final = ap.final
        /\ ap'.ev = ap.ev /\ ap'.policy = ap.policy /\ ap'.opts = ap.opts
    BY AfterRefuse DEF ApplyInv
  <1>2. TypeOK'
    BY <1>1 DEF TypeOK, external, OuterPCs, SelectPCs
  <1>3. SnapshotBound' /\ Gated' /\ ChangesSeen'
    BY <1>1 DEF ApplyInv, SnapshotBound, Gated, ChangesSeen, OuterPCs, SelectPCs
  <1>4. OnlyConsentedApplied' /\ NoUnseenChangeAtApply'
    BY DEF ApplyInv, OnlyConsentedApplied, NoUnseenChangeAtApply
  <1> QED BY <1>2, <1>3, <1>4 DEF ApplyInv

\* A step to another place, outside the stretch from the final recheck on.
LEMMA MoveKeepsInv ==
  ASSUME ApplyInv, NEW pc \in ApplyPCs, AGoto(pc), SPTypeOK',
         UNCHANGED <<external, log, touched>>,
         ~ap.final \/ pc \notin {"recheck", "fdCheck", "apply"},
         pc \notin {"show", "gate", "fdCheck", "apply"},
         ap.final => pc \in {"recheck", "dropPlan", "dropSources", "dropAttest", "cleanup"},
         pc \notin OuterPCs => ap.pc \notin OuterPCs,
         pc \in SelectPCs => ap.pc \in SelectPCs
  PROVE  ApplyInv'
  <1>1. /\ TypeOK /\ ap' \in ApplyStates /\ ap'.pc = pc
        /\ ap'.i = ap.i /\ ap'.final = ap.final
        /\ ap'.ev = ap.ev /\ ap'.policy = ap.policy /\ ap'.opts = ap.opts
    BY AfterAGoto DEF ApplyInv
  <1>2. TypeOK'
    BY <1>1 DEF TypeOK, external, OuterPCs, SelectPCs
  <1>3. SnapshotBound' /\ Gated' /\ ChangesSeen'
    BY <1>1 DEF ApplyInv, SnapshotBound, Gated, ChangesSeen, OuterPCs, SelectPCs
  <1>4. OnlyConsentedApplied' /\ NoUnseenChangeAtApply'
    BY DEF ApplyInv, OnlyConsentedApplied, NoUnseenChangeAtApply
  <1> QED BY <1>2, <1>3, <1>4 DEF ApplyInv

\* A new state of the process outside the stretch from the final recheck on,
\* whose evidence binds the snapshot it has.
LEMMA UngatedKeepsInv ==
  ASSUME ApplyInv, SPTypeOK', ap' \in ApplyStates, UNCHANGED <<external, log>>,
         touched' \in SUBSET Checks, ~ap'.final,
         ap'.pc \notin {"show", "gate", "fdCheck", "apply"},
         ap'.pc \notin OuterPCs => ap'.i \in 1..Len(Order),
         ap'.pc \notin OuterPCs => ap'.ev.copy \in {ap'.ev.plan, Torn},
         ap'.ev.linked => ap'.ev.plan # Null,
         ap'.pc \in SelectPCs => ap'.ev = NoEvidence
  PROVE  ApplyInv'
  <1>1. TypeOK'
    BY DEF ApplyInv, TypeOK, external, OuterPCs, SelectPCs
  <1>2. SnapshotBound' /\ Gated' /\ ChangesSeen'
    BY DEF SnapshotBound, Gated, ChangesSeen
  <1>3. OnlyConsentedApplied' /\ NoUnseenChangeAtApply'
    BY DEF ApplyInv, OnlyConsentedApplied, NoUnseenChangeAtApply
  <1> QED BY <1>1, <1>2, <1>3 DEF ApplyInv

LEMMA StartKeepsInv ==
  ASSUME ApplyInv, NEW opts \in Options, NEW onMain \in BOOLEAN, StartApply(opts, onMain)
  PROVE  ApplyInv'
  <1> DEFINE pc == IF onMain \/ opts.allowNonMain THEN "policy" ELSE "failed"
  <1>1. opts \in OptionSet
    BY ExactApplyAssumption DEF OptionSet
  <1>2. ap' = [ApplyIdle EXCEPT !.opts = opts, !.pc = pc]
    BY DEF StartApply
  <1>3. pc \in {"policy", "failed"}
    OBVIOUS
  <1>4. /\ ap' \in ApplyStates /\ ap'.pc \in {"policy", "failed"} /\ ~ap'.final
        /\ ap'.ev = NoEvidence
    <2> HIDE DEF pc
    <2>1. ApplyIdle.final = FALSE /\ ApplyIdle.ev = NoEvidence
      BY DEF ApplyIdle
    <2> QED BY <1>1, <1>2, <1>3, <2>1, ApplyIdleType DEF ApplyStates, ApplyPCs
  <1>5. TypeOK'
    BY <1>4 DEF StartApply, spState, external, ApplyInv, TypeOK, SPTypeOK, OuterPCs, SelectPCs
  <1>6. SnapshotBound' /\ Gated' /\ ChangesSeen'
    BY <1>4 DEF SnapshotBound, Gated, ChangesSeen, NoEvidence, OuterPCs, SelectPCs
  <1>7. OnlyConsentedApplied' /\ NoUnseenChangeAtApply'
    BY DEF StartApply, OnlyConsentedApplied, NoUnseenChangeAtApply
  <1> QED BY <1>5, <1>6, <1>7 DEF ApplyInv

LEMMA CrashKeepsInv ==
  ASSUME ApplyInv, ApplyCrash
  PROVE  ApplyInv'
  <1>1. /\ ap' \in ApplyStates /\ ap'.pc = "idle" /\ ~ap'.final /\ ap'.ev = NoEvidence
    BY ApplyIdleType DEF ApplyCrash, ApplyIdle
  <1>2. TypeOK'
    BY <1>1 DEF ApplyCrash, spState, external, ApplyInv, TypeOK, SPTypeOK, OuterPCs, SelectPCs
  <1>3. SnapshotBound' /\ Gated' /\ ChangesSeen'
    BY <1>1 DEF SnapshotBound, Gated, ChangesSeen, NoEvidence, OuterPCs, SelectPCs
  <1>4. OnlyConsentedApplied' /\ NoUnseenChangeAtApply'
    BY DEF ApplyCrash, OnlyConsentedApplied, NoUnseenChangeAtApply
  <1> QED BY <1>2, <1>3, <1>4 DEF ApplyInv

\* The steps before a root's evidence: policy, control files, selection.
LEMMA LoadKeepsInv ==
  ASSUME ApplyInv, LoadPolicy \/ LoadInputs \/ RecheckControls \/ Materialize
  PROVE  ApplyInv'
  <1>1. SPTypeOK' /\ UNCHANGED <<external, log, touched>> /\ TypeOK
    BY DEF ApplyInv, TypeOK, SPTypeOK, LoadPolicy, LoadInputs, RecheckControls, Materialize,
           spState
  <1>2. ap.pc \in SelectPCs /\ ap.ev = NoEvidence /\ ~ap.final
    BY DEF ApplyInv, Gated, SnapshotBound, LoadPolicy, LoadInputs, RecheckControls,
           Materialize, OuterPCs, SelectPCs
  <1>3. CASE LoadPolicy
    <2>1. /\ ap' \in ApplyStates /\ ap'.pc = "controls" /\ ap'.final = ap.final
          /\ ap'.ev = ap.ev
      BY <1>1, <1>3 DEF LoadPolicy, TypeOK, ApplyStates, ApplyPCs
    <2> QED BY <1>1, <1>2, <2>1, UngatedKeepsInv DEF OuterPCs, SelectPCs, TypeOK, NoEvidence
  <1>4. CASE LoadInputs
    <2>1. /\ ap' \in ApplyStates /\ ap'.pc = "bound" /\ ap'.final = ap.final
          /\ ap'.ev = ap.ev
      BY <1>1, <1>4 DEF LoadInputs, TypeOK, ApplyStates, ApplyPCs
    <2> QED BY <1>1, <1>2, <2>1, UngatedKeepsInv DEF OuterPCs, SelectPCs, TypeOK, NoEvidence
  <1>5. CASE RecheckControls
    BY <1>1, <1>2, <1>5, MoveKeepsInv DEF RecheckControls, ApplyPCs, OuterPCs, SelectPCs
  <1>6. CASE Materialize
    <2>1. CASE AGoto("failed")
      BY <1>1, <1>2, <2>1, MoveKeepsInv DEF ApplyPCs, OuterPCs, SelectPCs
    <2>2. CASE \E i \in 1..Len(Order) :
                 ap' = [ap EXCEPT !.selected = SavedRoots, !.i = i, !.pc = "prepare"]
      <3>1. PICK i \in 1..Len(Order) :
              ap' = [ap EXCEPT !.selected = SavedRoots, !.i = i, !.pc = "prepare"]
        BY <2>2
      <3>2. SavedRoots \in SUBSET Roots /\ i \in Nat
        BY OrderInRoots DEF SavedRoots
      <3>3. /\ ap' \in ApplyStates /\ ap'.pc = "prepare" /\ ap'.final = ap.final
            /\ ap'.ev = ap.ev /\ ap'.i = i
        BY <1>1, <3>1, <3>2 DEF TypeOK, ApplyStates, ApplyPCs
      <3> QED BY <1>1, <1>2, <3>3, UngatedKeepsInv DEF OuterPCs, SelectPCs, TypeOK, NoEvidence
    <2> QED BY <1>6, <2>1, <2>2 DEF Materialize
  <1> QED BY <1>3, <1>4, <1>5, <1>6

-----------------------------------------------------------------------------
(* One root: evidence, initialization, checks *)

LEMMA PrepareKeepsInv ==
  ASSUME ApplyInv, Prepare
  PROVE  ApplyInv'
  <1> DEFINE check == PrepareScript[ap.k]
             pc == IF ap.k = Len(PrepareScript) THEN "init" ELSE "prepare"
             k  == IF ap.k = Len(PrepareScript) THEN 1 ELSE ap.k + 1
             After(ev) == ap' = [ap EXCEPT !.ev = ev, !.k = k, !.pc = pc]
  <1>1. /\ SPTypeOK' /\ UNCHANGED <<external, log, touched>> /\ TypeOK
        /\ ap.pc = "prepare" /\ ap.pc \notin OuterPCs
        /\ touched' \in SUBSET Checks
    BY DEF ApplyInv, TypeOK, SPTypeOK, Prepare, spState, OuterPCs, SelectPCs
  <1>2. /\ ~ap.final /\ ap.ev.copy \in {ap.ev.plan, Torn} /\ ap.i \in 1..Len(Order)
        /\ ap.ev.linked => ap.ev.plan # Null
        /\ ap.ev \in Evidence /\ ap.k \in Nat /\ aroot \in Roots
    BY <1>1, ApplyFields DEF ApplyInv, Gated, SnapshotBound
  <1>3. CASE Refuse
    BY <1>1, <1>3, RefuseKeepsInv
  <1>4. ASSUME NEW ev \in Evidence, After(ev), ev.copy \in {ev.plan, Torn},
               ev.linked => ev.plan # Null
        PROVE  ApplyInv'
    <2>1. pc \in {"init", "prepare"} /\ k \in Nat
      BY <1>2
    <2>2. /\ ap' \in ApplyStates /\ ap'.pc \in {"init", "prepare"} /\ ap'.final = ap.final
          /\ ap'.ev = ev /\ ap'.i = ap.i
      <3> HIDE DEF pc, k
      <3> QED BY <1>1, <1>4, <2>1 DEF TypeOK, ApplyStates, ApplyPCs
    <2> HIDE DEF After, pc, k
    <2> QED BY <1>1, <1>2, <1>4, <2>2, UngatedKeepsInv DEF OuterPCs, SelectPCs
  <1>5. \/ Refuse
        \/ Declared(aroot) /\ After([ap.ev EXCEPT !.src = sources[aroot]])
        \/ tfplan[aroot] # Null
             /\ After([ap.ev EXCEPT !.plan = tfplan[aroot], !.copy = tfplan[aroot],
                                    !.linked = TRUE])
        \/ (attest[aroot] = Null \/ attest[aroot] # Torn)
             /\ After([ap.ev EXCEPT !.att = attest[aroot]])
        \/ After(ap.ev)
    BY DEF Prepare, PreparedBy, ReadsAttestation
  <1>6. CASE Declared(aroot) /\ After([ap.ev EXCEPT !.src = sources[aroot]])
    <2> DEFINE ev == [ap.ev EXCEPT !.src = sources[aroot]]
    <2>1. sources[aroot] \in Fingerprints \cup {Null}
      BY <1>1, <1>2, <1>6 DEF Declared, TypeOK, SPTypeOK
    <2>2. ev \in Evidence /\ ev.copy = ap.ev.copy /\ ev.plan = ap.ev.plan
          /\ ev.linked = ap.ev.linked
      BY <1>2, <2>1 DEF Evidence
    <2> HIDE DEF ev, After
    <2>3. After(ev)
      BY <1>6 DEF ev
    <2> QED BY <1>2, <1>4, <2>2, <2>3
  <1>7. CASE tfplan[aroot] # Null
               /\ After([ap.ev EXCEPT !.plan = tfplan[aroot], !.copy = tfplan[aroot],
                                      !.linked = TRUE])
    <2> DEFINE ev == [ap.ev EXCEPT !.plan = tfplan[aroot], !.copy = tfplan[aroot],
                                   !.linked = TRUE]
    <2>1. tfplan[aroot] \in SavedPlans
      BY <1>1, <1>2, <1>7 DEF TypeOK, SPTypeOK
    <2>2. ev \in Evidence /\ ev.copy = tfplan[aroot] /\ ev.plan = tfplan[aroot]
      BY <1>2, <2>1 DEF Evidence
    <2> HIDE DEF ev, After
    <2>3. After(ev)
      BY <1>7 DEF ev
    <2> QED BY <1>4, <1>7, <2>2, <2>3
  <1>8. CASE (attest[aroot] = Null \/ attest[aroot] # Torn)
               /\ After([ap.ev EXCEPT !.att = attest[aroot]])
    <2> DEFINE ev == [ap.ev EXCEPT !.att = attest[aroot]]
    <2>1. attest[aroot] \in Attestations \cup {Null}
      BY <1>1, <1>2, <1>8, SavedPlanAssumption DEF TypeOK, SPTypeOK
    <2>2. ev \in Evidence /\ ev.copy = ap.ev.copy /\ ev.plan = ap.ev.plan
          /\ ev.linked = ap.ev.linked
      BY <1>2, <2>1 DEF Evidence
    <2> HIDE DEF ev, After
    <2>3. After(ev)
      BY <1>8 DEF ev
    <2> QED BY <1>2, <1>4, <2>2, <2>3
  <1>9. CASE After(ap.ev)
    <2> HIDE DEF After
    <2> QED BY <1>2, <1>4, <1>9
  <1> HIDE DEF After
  <1> QED BY <1>3, <1>5, <1>6, <1>7, <1>8, <1>9

LEMMA ApplyInitializeKeepsInv ==
  ASSUME ApplyInv, ApplyInitialize
  PROVE  ApplyInv'
  <1>1. /\ TypeOK /\ SPTypeOK /\ UNCHANGED <<external, log, touched>> /\ ap.pc = "init"
        /\ ap.pc \notin OuterPCs /\ touched' \in SUBSET Checks
    BY DEF ApplyInv, TypeOK, ApplyInitialize, OuterPCs, SelectPCs
  <1>2. aroot \in Roots /\ ~ap.final
    BY <1>1, ApplyFields DEF ApplyInv, Gated
  <1>3. SPTypeOK'
    <2>1. inputs' \in [Roots -> Fingerprints] /\ epoch' \in [Roots -> Nat]
      <3>1. CASE TerraformInit(aroot)
        BY <1>1, <1>2, <3>1, TerraformInitType
      <3>2. CASE UNCHANGED <<inputs, epoch>>
        BY <1>1, <3>2 DEF SPTypeOK
      <3> QED BY <3>1, <3>2 DEF ApplyInitialize
    <2> QED BY <1>1, <2>1 DEF ApplyInitialize, SPTypeOK
  <1>4. CASE AGoto("recheck")
    BY <1>1, <1>2, <1>3, <1>4, MoveKeepsInv DEF ApplyPCs, OuterPCs, SelectPCs
  <1>5. CASE Refuse
    BY <1>1, <1>3, <1>5, RefuseKeepsInv
  <1> QED BY <1>4, <1>5 DEF ApplyInitialize

\* The script is read from the end: each item is in it, the last position
\* completes it.
LEMMA ScriptCovers ==
  /\ Len(RecheckScript) = 17
  /\ \A x \in Checks : \E j \in 1..17 : RecheckScript[j] = x
  <1>1. /\ Len(RecheckScript) = 17
        /\ RecheckScript[1] = "controls" /\ RecheckScript[2] = "context"
        /\ RecheckScript[4] = "attested" /\ RecheckScript[5] = "original"
        /\ RecheckScript[6] = "declared" /\ RecheckScript[7] = "current"
        /\ RecheckScript[16] = "policy"
    BY DEF RecheckScript
  <1> QED BY <1>1 DEF Checks

\* What is bound holds on as long as neither side moves.
LEMMA HoldsOn ==
  ASSUME NEW x \in Checks, UNCHANGED <<inputs, tfplan, sources, attest, policy, controls>>,
         ap'.i = ap.i, ap'.ev = ap.ev, ap'.policy = ap.policy, ap'.controls = ap.controls,
         ap'.selected = ap.selected
  PROVE  Holds(x)' <=> Holds(x)
  <1>1. aroot' = aroot
    BY DEF aroot
  <1>2. ExpectedRoots' = ExpectedRoots /\ SavedRoots' = SavedRoots
    BY DEF ExpectedRoots, SavedRoots
  <1> QED BY <1>1, <1>2 DEF Holds, Bound, Checks, PlanSources

LEMMA RecheckKeepsInv ==
  ASSUME ApplyInv, Recheck
  PROVE  ApplyInv'
  <1>1. /\ TypeOK /\ SPTypeOK' /\ UNCHANGED <<external, log, touched>> /\ ap.pc = "recheck"
        /\ ap.pc \notin OuterPCs /\ touched' \in SUBSET Checks
        /\ UNCHANGED <<inputs, tfplan, sources, attest, policy, controls>>
    BY DEF ApplyInv, TypeOK, SPTypeOK, Recheck, spState, external, OuterPCs, SelectPCs
  <1>2. /\ aroot \in Roots /\ ap.i \in 1..Len(Order) /\ ap.ev.copy \in {ap.ev.plan, Torn}
        /\ ap.ev.linked => ap.ev.plan # Null
        /\ ap.k \in Nat /\ ap.final \in BOOLEAN
    BY <1>1, ApplyFields DEF ApplyInv, SnapshotBound
  <1>3. CASE Refuse
    BY <1>1, <1>3, RefuseKeepsInv
  <1>4. CASE ~Refuse
    <2> DEFINE k == IF ap.k = Len(RecheckScript) THEN 1 ELSE ap.k + 1
               pc == IF ap.k < Len(RecheckScript) THEN "recheck"
                     ELSE IF ap.final THEN "fdCheck" ELSE "open"
    <2>1. /\ Holds(RecheckScript[ap.k])
          /\ ap' = [ap EXCEPT !.k = k, !.pc = pc]
      BY <1>4 DEF Recheck
    <2>2. k \in Nat /\ pc \in {"recheck", "fdCheck", "open"}
      BY <1>2
    <2>3. /\ ap' \in ApplyStates /\ ap'.pc = pc /\ ap'.k = k /\ ap'.i = ap.i
          /\ ap'.final = ap.final /\ ap'.ev = ap.ev /\ ap'.policy = ap.policy
          /\ ap'.controls = ap.controls /\ ap'.selected = ap.selected /\ ap'.opts = ap.opts
      <3> HIDE DEF k, pc
      <3> QED BY <1>1, <2>1, <2>2 DEF TypeOK, ApplyStates, ApplyPCs
    <2>4. CASE ~ap.final
      <3>1. pc \in {"recheck", "open"}
        BY <2>4
      <3> HIDE DEF k, pc
      <3> QED BY <1>1, <1>2, <2>3, <2>4, <3>1, UngatedKeepsInv DEF OuterPCs, SelectPCs
    <2>5. CASE ap.final
      <3>1. TypeOK'
        BY <1>1, <1>2, <2>3 DEF TypeOK, external
      <3>2. pc \in {"recheck", "fdCheck"}
        BY <2>5
      <3>3. SnapshotBound' /\ Gated'
        <4> HIDE DEF k, pc
        <4> QED BY <1>1, <2>3, <2>5, <3>2
                DEF ApplyInv, SnapshotBound, Gated, OuterPCs, SelectPCs
      <3>4. /\ ap.k \in 1..17 /\ Len(RecheckScript) = 17
            /\ \A x \in Checks : Rechecked(x) => Holds(x) \/ x \in touched
        BY <1>1, <2>5, ScriptCovers DEF ApplyInv, ChangesSeen
      <3>5. pc = "recheck" => k = ap.k + 1 /\ k \in 1..17
        BY <3>4
      <3>6. pc = "fdCheck" => ap.k = 17
        BY <2>5, <3>4
      <3>7. ASSUME NEW x \in Checks, Rechecked(x)'
            PROVE  Holds(x)' \/ x \in touched'
        <4>1. Rechecked(x) \/ RecheckScript[ap.k] = x
          <5>1. CASE pc = "recheck"
            <6>1. PICK j \in 1..(k - 1) : RecheckScript[j] = x
              BY <2>3, <3>7, <5>1 DEF Rechecked
            <6>2. j \in 1..(ap.k - 1) \/ j = ap.k
              BY <1>2, <3>5, <5>1
            <6> QED BY <6>1, <6>2 DEF Rechecked
          <5>2. CASE pc = "fdCheck"
            <6>1. PICK j \in 1..17 : RecheckScript[j] = x
              BY ScriptCovers
            <6>2. j \in 1..(ap.k - 1) \/ j = ap.k
              BY <3>6, <5>2
            <6> QED BY <6>1, <6>2 DEF Rechecked
          <5> QED BY <3>2, <5>1, <5>2
        <4>2. Holds(x) \/ x \in touched
          BY <2>1, <3>4, <4>1
        <4>3. Holds(x)' <=> Holds(x)
          BY <1>1, <2>3, HoldsOn
        <4> QED BY <1>1, <4>2, <4>3
      <3>8. ChangesSeen'
        <4> HIDE DEF k, pc
        <4>1. ap'.pc = "recheck" => ap'.k \in 1..17
          BY <2>3, <3>5
        <4> QED BY <3>4, <3>7, <4>1 DEF ChangesSeen
      <3>9. OnlyConsentedApplied' /\ NoUnseenChangeAtApply'
        BY <1>1 DEF ApplyInv, OnlyConsentedApplied, NoUnseenChangeAtApply
      <3> QED BY <3>1, <3>3, <3>8, <3>9 DEF ApplyInv
    <2> QED BY <1>2, <2>4, <2>5
  <1> QED BY <1>3, <1>4

-----------------------------------------------------------------------------
(* The descriptor: shown, judged, applied *)

LEMMA OpenKeepsInv ==
  ASSUME ApplyInv, OpenSnapshot
  PROVE  ApplyInv'
  <1>1. /\ TypeOK /\ SPTypeOK' /\ UNCHANGED <<external, log, touched>> /\ ap.pc = "open"
        /\ ap.pc \notin OuterPCs /\ touched' \in SUBSET Checks
    BY DEF ApplyInv, TypeOK, SPTypeOK, OpenSnapshot, spState, OuterPCs, SelectPCs
  <1>2. CASE Refuse
    BY <1>1, <1>2, RefuseKeepsInv
  <1>3. CASE Holds("digest") /\ ap' = [ap EXCEPT !.ev.fd = TRUE, !.pc = "show"]
    <2> DEFINE ev == [ap.ev EXCEPT !.fd = TRUE]
    <2>1. ev \in Evidence /\ ev.copy = ap.ev.copy /\ ev.plan = ap.ev.plan
      BY <1>1, ApplyFields DEF Evidence
    <2>2. ap' = [ap EXCEPT !.ev = ev, !.pc = "show"]
      BY <1>1, <1>3 DEF TypeOK, ApplyStates
    <2>3. /\ ap' \in ApplyStates /\ ap'.pc = "show" /\ ap'.ev = ev /\ ap'.i = ap.i
          /\ ap'.final = ap.final
      <3> HIDE DEF ev
      <3> QED BY <1>1, <2>1, <2>2 DEF TypeOK, ApplyStates, ApplyPCs
    <2>4. ap.ev.linked /\ ap.ev.plan # Null /\ ~ap.final
      BY <1>1, <1>3 DEF Holds, Bound, ApplyInv, SnapshotBound, Gated
    <2>5. TypeOK'
      <3>1. ap.i \in 1..Len(Order)
        BY <1>1, ApplyFields
      <3> HIDE DEF ev
      <3> QED BY <1>1, <2>3, <3>1 DEF TypeOK, external
    <2>6. SnapshotBound' /\ Gated' /\ ChangesSeen'
      <3> HIDE DEF ev
      <3> QED BY <1>1, <2>1, <2>3, <2>4
              DEF ApplyInv, SnapshotBound, Gated, ChangesSeen, OuterPCs, SelectPCs
    <2>7. OnlyConsentedApplied' /\ NoUnseenChangeAtApply'
      BY <1>1 DEF ApplyInv, OnlyConsentedApplied, NoUnseenChangeAtApply
    <2> QED BY <2>5, <2>6, <2>7 DEF ApplyInv
  <1> QED BY <1>2, <1>3 DEF OpenSnapshot

LEMMA ShowKeepsInv ==
  ASSUME ApplyInv, ShowSnapshot
  PROVE  ApplyInv'
  <1>1. /\ TypeOK /\ SPTypeOK' /\ UNCHANGED <<external, log, touched>> /\ ap.pc = "show"
        /\ ap.pc \notin OuterPCs /\ touched' \in SUBSET Checks
    BY DEF ApplyInv, TypeOK, SPTypeOK, ShowSnapshot, spState, OuterPCs, SelectPCs
  <1>2. CASE Refuse
    BY <1>1, <1>2, RefuseKeepsInv
  <1>3. CASE ap.ev.copy # Torn /\ ap' = [ap EXCEPT !.ev.shown = ap.ev.copy.body, !.pc = "gate"]
    <2> DEFINE ev == [ap.ev EXCEPT !.shown = ap.ev.copy.body]
    <2>1. ap.ev.copy = ap.ev.plan /\ ap.ev.plan \in SavedPlans /\ ~ap.final
      BY <1>1, <1>3, ApplyFields DEF ApplyInv, SnapshotBound, Gated
    <2>2. ap.ev.plan.body \in Bodies
      BY <2>1 DEF SavedPlans
    <2>3. /\ ev \in Evidence /\ ev.copy = ap.ev.copy /\ ev.plan = ap.ev.plan
          /\ ev.shown = ap.ev.plan.body
      BY <1>1, <2>1, <2>2, ApplyFields DEF Evidence
    <2>4. ap' = [ap EXCEPT !.ev = ev, !.pc = "gate"]
      BY <1>1, <1>3 DEF TypeOK, ApplyStates
    <2>5. /\ ap' \in ApplyStates /\ ap'.pc = "gate" /\ ap'.ev = ev /\ ap'.i = ap.i
          /\ ap'.final = ap.final
      <3> HIDE DEF ev
      <3> QED BY <1>1, <2>3, <2>4 DEF TypeOK, ApplyStates, ApplyPCs
    <2>6. TypeOK'
      <3>1. ap.i \in 1..Len(Order)
        BY <1>1, ApplyFields
      <3> HIDE DEF ev
      <3> QED BY <1>1, <2>5, <3>1 DEF TypeOK, external
    <2>7. SnapshotBound' /\ Gated' /\ ChangesSeen'
      <3>1. ap.ev.plan # Null
        BY <1>1 DEF ApplyInv, SnapshotBound
      <3> HIDE DEF ev
      <3> QED BY <2>1, <2>3, <2>5, <3>1
              DEF SnapshotBound, Gated, ChangesSeen, OuterPCs, SelectPCs
    <2>8. OnlyConsentedApplied' /\ NoUnseenChangeAtApply'
      BY <1>1 DEF ApplyInv, OnlyConsentedApplied, NoUnseenChangeAtApply
    <2> QED BY <2>6, <2>7, <2>8 DEF ApplyInv
  <1> QED BY <1>2, <1>3 DEF ShowSnapshot

LEMMA GateKeepsInv ==
  ASSUME ApplyInv, Gate
  PROVE  ApplyInv'
  <1>1. /\ TypeOK /\ SPTypeOK' /\ UNCHANGED <<external, log>> /\ ap.pc = "gate"
        /\ ap.pc \notin OuterPCs
    BY DEF ApplyInv, TypeOK, SPTypeOK, Gate, spState, OuterPCs, SelectPCs
  <1>2. CASE Refuse /\ UNCHANGED touched
    BY <1>1, <1>2, RefuseKeepsInv DEF TypeOK
  <1>3. CASE /\ ApplyGate(ap.ev.shown, ap.policy, Attested(ap.ev.att),
                          ap.opts.allowDestroy, ap.opts.allowPlanChanges)
             /\ ap' = [ap EXCEPT !.final = TRUE, !.k = 1, !.pc = "recheck"]
             /\ touched' = {}
    <2>1. /\ ap' \in ApplyStates /\ ap'.pc = "recheck" /\ ap'.k = 1 /\ ap'.final
          /\ ap'.i = ap.i /\ ap'.ev = ap.ev /\ ap'.policy = ap.policy /\ ap'.opts = ap.opts
      BY <1>1, <1>3 DEF TypeOK, ApplyStates, ApplyPCs
    <2>2. TypeOK'
      <3>1. ap.i \in 1..Len(Order)
        BY <1>1, ApplyFields
      <3> QED BY <1>1, <1>3, <2>1, <3>1 DEF TypeOK, external
    <2>3. SnapshotBound' /\ Gated'
      BY <1>1, <1>3, <2>1 DEF ApplyInv, SnapshotBound, Gated, OuterPCs, SelectPCs
    <2>4. ChangesSeen'
      BY <2>1, ScriptCovers DEF ChangesSeen, Rechecked
    <2>5. OnlyConsentedApplied' /\ NoUnseenChangeAtApply'
      BY <1>1 DEF ApplyInv, OnlyConsentedApplied, NoUnseenChangeAtApply
    <2> QED BY <2>2, <2>3, <2>4, <2>5 DEF ApplyInv
  <1> QED BY <1>2, <1>3 DEF Gate

LEMMA DescriptorKeepsInv ==
  ASSUME ApplyInv, RecheckDescriptor
  PROVE  ApplyInv'
  <1>1. /\ TypeOK /\ SPTypeOK' /\ UNCHANGED <<external, log, touched>> /\ ap.pc = "fdCheck"
        /\ ap.pc \notin OuterPCs /\ touched' \in SUBSET Checks
        /\ UNCHANGED <<inputs, tfplan, sources, attest, policy, controls>>
    BY DEF ApplyInv, TypeOK, SPTypeOK, RecheckDescriptor, spState, external, OuterPCs, SelectPCs
  <1>2. CASE Refuse
    BY <1>1, <1>2, RefuseKeepsInv
  <1>3. CASE AGoto("apply")
    <2>1. /\ ap' \in ApplyStates /\ ap'.pc = "apply" /\ ap'.i = ap.i /\ ap'.final = ap.final
          /\ ap'.ev = ap.ev /\ ap'.policy = ap.policy /\ ap'.controls = ap.controls
          /\ ap'.selected = ap.selected /\ ap'.opts = ap.opts
      BY <1>1, <1>3, AfterAGoto DEF ApplyPCs
    <2>2. TypeOK'
      <3>1. ap.i \in 1..Len(Order)
        BY <1>1, ApplyFields
      <3> QED BY <1>1, <2>1, <3>1 DEF TypeOK, external
    <2>3. SnapshotBound' /\ Gated'
      BY <1>1, <2>1 DEF ApplyInv, SnapshotBound, Gated, OuterPCs, SelectPCs
    <2>4. ChangesSeen'
      <3>1. \A x \in Checks : Holds(x) \/ x \in touched
        BY <1>1 DEF ApplyInv, Gated, ChangesSeen, Rechecked
      <3>2. \A x \in Checks : Holds(x)' \/ x \in touched'
        BY <1>1, <2>1, <3>1, HoldsOn
      <3> QED BY <2>1, <3>2 DEF ChangesSeen
    <2>5. OnlyConsentedApplied' /\ NoUnseenChangeAtApply'
      BY <1>1 DEF ApplyInv, OnlyConsentedApplied, NoUnseenChangeAtApply
    <2> QED BY <2>2, <2>3, <2>4, <2>5 DEF ApplyInv
  <1> QED BY <1>2, <1>3 DEF RecheckDescriptor

\* An apply: its bytes were judged, and what it depends on was rechecked.
LEMMA TerraformApplyKeepsInv ==
  ASSUME ApplyInv, TerraformApply
  PROVE  ApplyInv'
  <1>1. /\ TypeOK /\ SPTypeOK' /\ UNCHANGED <<external, touched>> /\ ap.pc = "apply"
        /\ ap.pc \notin OuterPCs /\ ap.final /\ touched' \in SUBSET Checks
        /\ aroot \in Roots
    BY ApplyFields DEF ApplyInv, Gated, TypeOK, SPTypeOK, TerraformApply, spState, OuterPCs,
           SelectPCs
  <1> DEFINE entry(ok) == [at |-> ap.i, plan |-> AppliedPlan, policy |-> ap.policy,
                           opts |-> ap.opts, att |-> ap.ev.att, src |-> ap.ev.src,
                           unseen |-> Stale \ touched, ok |-> ok]
             LogOK(l) == /\ l \in Seq(LogEntries)
                         /\ \A n \in 1..Len(l) :
                              /\ Consented(l[n].plan.body, l[n].policy,
                                           l[n].opts.allowDestroy, l[n].opts.allowPlanChanges)
                              /\ l[n].unseen = {}
  <1>2. ASSUME NEW ok \in BOOLEAN, AppliedPlan \notin {Null, Torn},
               log' = Append(log, entry(ok))
        PROVE  LogOK(log')
    <2>1. /\ ap.ev.copy = ap.ev.plan /\ ap.ev.plan \in SavedPlans /\ AppliedPlan = ap.ev.plan
          /\ ap.ev.shown = ap.ev.plan.body /\ ap.ev.plan.body \in Bodies
      BY <1>1, <1>2, ApplyFields DEF ApplyInv, SnapshotBound, Gated, SavedPlans, AppliedPlan
    <2>2. Consented(ap.ev.shown, ap.policy, ap.opts.allowDestroy, ap.opts.allowPlanChanges)
      <3>1. RecordsTyped(ap.ev.shown)
        BY <2>1, ExactApplyAssumption DEF RecordsTyped
      <3>2. ap.opts.allowDestroy \in BOOLEAN /\ ap.opts.allowPlanChanges \in BOOLEAN
        BY <1>1, ApplyFields DEF OptionSet
      <3>3. ApplyGate(ap.ev.shown, ap.policy, Attested(ap.ev.att),
                      ap.opts.allowDestroy, ap.opts.allowPlanChanges)
        BY <1>1 DEF ApplyInv, Gated
      <3> QED BY <3>1, <3>2, <3>3, GatedIsConsented
    <2>3. Stale \ touched = {}
      <3>1. \A x \in Checks : Holds(x) \/ x \in touched
        BY <1>1 DEF ApplyInv, ChangesSeen, Rechecked
      <3> QED BY <3>1 DEF Stale
    <2>4. entry(ok) \in LogEntries
      <3>1. Stale \ touched \in SUBSET Checks
        BY DEF Stale
      <3> QED BY <1>1, <2>1, <3>1, ApplyFields DEF LogEntries
    <2>5. log \in Seq(LogEntries)
      BY <1>1 DEF TypeOK
    <2>6. /\ entry(ok).plan.body = ap.ev.shown /\ entry(ok).policy = ap.policy
          /\ entry(ok).opts = ap.opts /\ entry(ok).unseen = {}
      BY <2>1, <2>3
    <2> DEFINE e == entry(ok)
    <2>7. /\ e \in LogEntries /\ e.plan.body = ap.ev.shown /\ e.policy = ap.policy
          /\ e.opts = ap.opts /\ e.unseen = {} /\ log' = Append(log, e)
      BY <1>2, <2>4, <2>6
    <2> HIDE DEF e
    <2>8. \A n \in 1..Len(log) :
            /\ Consented(log[n].plan.body, log[n].policy,
                         log[n].opts.allowDestroy, log[n].opts.allowPlanChanges)
            /\ log[n].unseen = {}
      BY DEF ApplyInv, OnlyConsentedApplied, NoUnseenChangeAtApply
    <2>9. /\ log' \in Seq(LogEntries) /\ Len(log') = Len(log) + 1
          /\ \A n \in 1..Len(log) : log'[n] = log[n]
          /\ log'[Len(log) + 1] = e
      BY <2>5, <2>7
    <2>10. ASSUME NEW n \in 1..Len(log')
           PROVE  /\ Consented(log'[n].plan.body, log'[n].policy,
                               log'[n].opts.allowDestroy, log'[n].opts.allowPlanChanges)
                  /\ log'[n].unseen = {}
      <3>1. Len(log) \in Nat
        BY <2>5
      <3>2. n \in 1..Len(log) \/ n = Len(log) + 1
        BY <2>9, <3>1
      <3> QED BY <2>2, <2>7, <2>8, <2>9, <3>2
    <2> QED BY <2>9, <2>10
  <1>3. LogOK(log)
    BY <1>1 DEF ApplyInv, OnlyConsentedApplied, NoUnseenChangeAtApply, TypeOK
  <1>4. LogOK(log')
    BY <1>2, <1>3 DEF TerraformApply
  <1>5. log' \in Seq(LogEntries) /\ OnlyConsentedApplied' /\ NoUnseenChangeAtApply'
    BY <1>4 DEF OnlyConsentedApplied, NoUnseenChangeAtApply
  <1>6. CASE Refuse
    <2>1. /\ ap' \in ApplyStates /\ ap'.pc = "cleanup" /\ ap'.i = ap.i /\ ap'.final = ap.final
          /\ ap'.ev = ap.ev /\ ap'.policy = ap.policy /\ ap'.opts = ap.opts
      BY <1>1, <1>6, AfterRefuse
    <2>2. TypeOK'
      <3>1. ap.i \in 1..Len(Order)
        BY <1>1, ApplyFields
      <3> QED BY <1>1, <1>5, <2>1, <3>1 DEF TypeOK, external
    <2>3. SnapshotBound' /\ Gated' /\ ChangesSeen'
      BY <1>1, <2>1 DEF ApplyInv, SnapshotBound, Gated, ChangesSeen, OuterPCs, SelectPCs
    <2> QED BY <1>5, <2>2, <2>3 DEF ApplyInv
  <1>7. CASE ap' = [ap EXCEPT !.applied = @ + 1, !.ev.fd = FALSE, !.pc = "dropPlan"]
    <2> DEFINE ev == [ap.ev EXCEPT !.fd = FALSE]
               n == ap.applied + 1
    <2>1. /\ ev \in Evidence /\ ev.copy = ap.ev.copy /\ ev.plan = ap.ev.plan
          /\ ev.shown = ap.ev.shown /\ ev.linked = ap.ev.linked /\ ev.att = ap.ev.att
          /\ n \in Nat
      <3>1. n \in Nat
        BY <1>1, ApplyFields
      <3>2. ap.ev \in Evidence
        BY <1>1, ApplyFields
      <3> QED BY <3>1, <3>2 DEF Evidence
    <2>2. ap' = [ap EXCEPT !.applied = n, !.ev = ev, !.pc = "dropPlan"]
      BY <1>1, <1>7 DEF TypeOK, ApplyStates
    <2>3. /\ ap' \in ApplyStates /\ ap'.pc = "dropPlan" /\ ap'.i = ap.i
          /\ ap'.final = ap.final /\ ap'.ev = ev /\ ap'.policy = ap.policy
          /\ ap'.opts = ap.opts
      <3> HIDE DEF ev, n
      <3> QED BY <1>1, <2>1, <2>2 DEF TypeOK, ApplyStates, ApplyPCs
    <2>4. TypeOK'
      <3>1. ap.i \in 1..Len(Order)
        BY <1>1, ApplyFields
      <3> HIDE DEF ev, n
      <3> QED BY <1>1, <1>5, <2>3, <3>1 DEF TypeOK, external
    <2>5. SnapshotBound' /\ Gated' /\ ChangesSeen'
      <3> HIDE DEF ev
      <3> QED BY <1>1, <2>1, <2>3
              DEF ApplyInv, SnapshotBound, Gated, ChangesSeen, OuterPCs, SelectPCs
    <2> QED BY <1>5, <2>4, <2>5 DEF ApplyInv
  <1> QED BY <1>6, <1>7 DEF TerraformApply

LEMMA DropKeepsInv ==
  ASSUME ApplyInv, DropApplied
  PROVE  ApplyInv'
  <1>1. /\ TypeOK /\ SPTypeOK /\ UNCHANGED <<external, log, touched>>
        /\ ap.pc \in {"dropPlan", "dropSources", "dropAttest"}
        /\ ap.pc \notin OuterPCs /\ touched' \in SUBSET Checks
    BY DEF ApplyInv, TypeOK, DropApplied, OuterPCs, SelectPCs
  <1>2. aroot \in Roots
    BY <1>1, ApplyFields
  <1>3. SPTypeOK'
    BY <1>1, <1>2 DEF DropApplied, SPTypeOK
  <1>4. CASE Refuse
    BY <1>1, <1>3, <1>4, RefuseKeepsInv
  <1>5. ASSUME NEW pc \in {"dropSources", "dropAttest", "cleanup"}, AGoto(pc)
        PROVE  ApplyInv'
    BY <1>1, <1>3, <1>5, MoveKeepsInv DEF ApplyPCs, OuterPCs, SelectPCs
  <1>6. CASE AGoto(CASE ap.pc = "dropPlan" -> "dropSources"
                     [] ap.pc = "dropSources" -> "dropAttest"
                     [] ap.pc = "dropAttest" -> "cleanup")
    BY <1>1, <1>5, <1>6
  <1> QED BY <1>4, <1>6 DEF DropApplied

\* The ways a root ends: with a failure, or without one and with nothing left.
LEMMA CleanupWays ==
  ASSUME TypeOK, Cleanup
  PROVE  \E left \in SUBSET Roots :
           /\ left \subseteq ap.left \cup {aroot}
           /\ \/ ap' = [Ended("failed") EXCEPT !.left = left]
              \/ /\ ~ap.failing /\ left = ap.left
                 /\ \A i \in (ap.i + 1)..Len(Order) : Order[i] \notin ap.selected
                 /\ ap' = [Ended("done") EXCEPT !.left = left]
              \/ /\ ~ap.failing /\ left = ap.left
                 /\ \E i \in (ap.i + 1)..Len(Order) :
                      /\ FirstSelected(ap.selected, ap.i + 1, i)
                      /\ ap' = [ap EXCEPT !.ev = NoEvidence, !.k = 1, !.final = FALSE,
                                          !.i = i, !.left = left, !.pc = "prepare"]
  <1>1. PICK ev \in ScrubLeaves(ap.ev), refused \in BOOLEAN :
          LET failed == RootFailed(ev.copy, refused)
              left   == ap.left \cup (IF ev.copy = Null THEN {} ELSE {aroot})
          IN  \/ /\ failed
                 /\ ap' = [Ended("failed") EXCEPT !.left = left]
              \/ /\ ~failed
                 /\ \A i \in (ap.i + 1)..Len(Order) : Order[i] \notin ap.selected
                 /\ ap' = [Ended("done") EXCEPT !.left = left]
              \/ /\ ~failed
                 /\ \E i \in (ap.i + 1)..Len(Order) :
                      /\ FirstSelected(ap.selected, ap.i + 1, i)
                      /\ ap' = [ap EXCEPT !.ev = NoEvidence, !.k = 1, !.final = FALSE,
                                          !.i = i, !.left = left, !.pc = "prepare"]
    BY DEF Cleanup
  <1> DEFINE left == ap.left \cup (IF ev.copy = Null THEN {} ELSE {aroot})
  <1>2. left \in SUBSET Roots /\ left \subseteq ap.left \cup {aroot}
    <2>1. ap.pc = "cleanup" /\ "cleanup" \notin OuterPCs /\ ap.left \in SUBSET Roots
      BY DEF Cleanup, OuterPCs, SelectPCs, TypeOK, ApplyStates
    <2>2. aroot \in Roots
      BY <2>1, ApplyFields
    <2> QED BY <2>1, <2>2
  <1>3. ~RootFailed(ev.copy, refused) => ~ap.failing /\ left = ap.left
    BY DEF RootFailed
  <1> HIDE DEF left
  <1> QED BY <1>1, <1>2, <1>3 DEF left

LEMMA CleanupKeepsInv ==
  ASSUME ApplyInv, Cleanup
  PROVE  ApplyInv'
  <1>1. /\ TypeOK /\ SPTypeOK' /\ UNCHANGED <<external, log>> /\ ap.pc = "cleanup"
        /\ touched' \in SUBSET Checks
    BY DEF ApplyInv, TypeOK, SPTypeOK, Cleanup, spState
  <1>2. /\ ap.i \in Nat /\ ap.selected \in SUBSET Roots /\ ap.applied \in Nat
        /\ ap.ev.copy \in SavedPlans \cup {Null, Torn}
    BY <1>1, ApplyFields
  <1>3. ASSUME NEW pc \in {"done", "failed"}
        PROVE  /\ Ended(pc) \in ApplyStates /\ Ended(pc).pc = pc /\ Ended(pc).final = FALSE
               /\ Ended(pc).ev = NoEvidence
    <2>1. ApplyIdle.final = FALSE /\ ApplyIdle.ev = NoEvidence
      BY DEF ApplyIdle
    <2> QED BY <1>2, <2>1, ApplyIdleType DEF Ended, ApplyStates, ApplyPCs
  <1>5. ASSUME NEW left \in SUBSET Roots, NEW pc \in {"done", "failed"},
               ap' = [Ended(pc) EXCEPT !.left = left]
        PROVE  ApplyInv'
    <2>1. ap' \in ApplyStates /\ ap'.pc = pc /\ ~ap'.final /\ ap'.ev = NoEvidence
      BY <1>3, <1>5 DEF ApplyStates
    <2> QED BY <1>1, <2>1, UngatedKeepsInv DEF OuterPCs, SelectPCs, NoEvidence
  <1>7. ASSUME NEW left \in SUBSET Roots, NEW i \in (ap.i + 1)..Len(Order),
               ap' = [ap EXCEPT !.ev = NoEvidence, !.k = 1, !.final = FALSE, !.i = i,
                                !.left = left, !.pc = "prepare"]
        PROVE  ApplyInv'
    <2>1. i \in Nat /\ i \in 1..Len(Order)
      BY <1>2, OrderInRoots
    <2>2. /\ ap' \in ApplyStates /\ ap'.pc = "prepare" /\ ~ap'.final /\ ap'.ev = NoEvidence
          /\ ap'.i = i
      BY <1>1, <1>7, <2>1, ApplyIdleType DEF TypeOK, ApplyStates, ApplyPCs
    <2> QED BY <1>1, <2>1, <2>2, UngatedKeepsInv DEF OuterPCs, SelectPCs, NoEvidence
  <1> QED BY <1>1, <1>5, <1>7, CleanupWays

-----------------------------------------------------------------------------
(* The others *)

\* Steps of others: the process and its history stay, and what they change of
\* the rechecked files is remembered.
LEMMA OthersKeepApplyInv ==
  ASSUME ApplyInv, TypeOK', UNCHANGED <<ap, log>>, touched \subseteq touched',
         ap.final /\ ap.pc \in {"recheck", "fdCheck", "apply"}
           => \A x \in Checks : Holds(x) => Holds(x)' \/ x \in touched'
  PROVE  ApplyInv'
  <1>1. SnapshotBound' /\ Gated'
    BY DEF ApplyInv, SnapshotBound, Gated
  <1>2. ChangesSeen'
    BY DEF ApplyInv, ChangesSeen, Rechecked
  <1>3. OnlyConsentedApplied' /\ NoUnseenChangeAtApply'
    BY DEF ApplyInv, OnlyConsentedApplied, NoUnseenChangeAtApply
  <1> QED BY <1>1, <1>2, <1>3 DEF ApplyInv

LEMMA OthersStepKeepsInv ==
  ASSUME ApplyInv, OthersStep
  PROVE  ApplyInv'
  <1>1. TypeOK /\ SPTypeOK' /\ UNCHANGED <<external, ap, log>>
    BY SPNextType DEF ApplyInv, TypeOK, OthersStep
  <1>2. touched \subseteq touched' /\ touched' \in SUBSET Checks
    BY <1>1 DEF OthersStep, Changes, Checks, TypeOK
  <1>3. TypeOK'
    BY <1>1, <1>2 DEF TypeOK, external
  <1>4. ASSUME ap.final, ap.pc \in {"recheck", "fdCheck", "apply"}, NEW x \in Checks,
               Holds(x), x \notin touched'
        PROVE  Holds(x)'
    <2>1. touched' = touched \cup Changes
      BY <1>4 DEF OthersStep, Watched
    <2>2. aroot' = aroot /\ ExpectedRoots' = ExpectedRoots
      BY <1>1 DEF aroot, ExpectedRoots
    <2>3. /\ x = "current" => inputs'[aroot] = inputs[aroot]
          /\ x = "declared" => sources'[aroot] = sources[aroot]
          /\ x = "original" => tfplan'[aroot] = tfplan[aroot]
          /\ x = "attested" => attest'[aroot] = attest[aroot]
          /\ x = "context" => tfplan' = tfplan
      BY <1>4, <2>1 DEF Changes
    <2> QED BY <1>1, <1>4, <2>2, <2>3 DEF Holds, Bound, Checks, PlanSources, SavedRoots, external
  <1> QED BY <1>1, <1>2, <1>3, <1>4, OthersKeepApplyInv

LEMMA EditKeepsInv ==
  ASSUME ApplyInv, NEW c, (c \in Policies /\ EditPolicy(c)) \/ (c \in Controls /\ EditControls(c))
  PROVE  ApplyInv'
  <1>1. /\ TypeOK /\ UNCHANGED <<inputs, tfplan, sources, attest, ap, log>>
        /\ touched \subseteq touched' /\ touched' \in SUBSET Checks
    BY DEF ApplyInv, TypeOK, EditPolicy, EditControls, Checks
  <1>2. TypeOK'
    BY <1>1 DEF TypeOK, SPTypeOK, EditPolicy, EditControls
  <1>3. ASSUME ap.final, ap.pc \in {"recheck", "fdCheck", "apply"}, NEW x \in Checks,
               Holds(x), x \notin touched'
        PROVE  Holds(x)'
    <2>1. /\ x = "policy" => policy' = policy
          /\ x = "controls" => controls' = controls
      BY <1>3 DEF EditPolicy, EditControls, Watched
    <2>2. aroot' = aroot /\ ExpectedRoots' = ExpectedRoots /\ SavedRoots' = SavedRoots
      BY <1>1 DEF aroot, ExpectedRoots, SavedRoots
    <2> QED BY <1>1, <1>3, <2>1, <2>2 DEF Holds, Bound, Checks, PlanSources
  <1> QED BY <1>1, <1>2, <1>3, OthersKeepApplyInv

LEMMA DisturbKeepsInv ==
  ASSUME ApplyInv, DisturbSnapshot
  PROVE  ApplyInv'
  <1>1. /\ TypeOK /\ SPTypeOK' /\ UNCHANGED <<external, log, touched>>
        /\ UNCHANGED <<inputs, tfplan, sources, attest, policy, controls>>
    BY DEF ApplyInv, TypeOK, SPTypeOK, DisturbSnapshot, spState, external
  <1>2. PICK ev \in {[ap.ev EXCEPT !.linked = FALSE], [ap.ev EXCEPT !.copy = Torn]} :
          ap' = [ap EXCEPT !.ev = ev]
    BY <1>1 DEF DisturbSnapshot, TypeOK, ApplyStates
  <1>3. /\ ev \in Evidence /\ ev.copy \in {ap.ev.copy, Torn} /\ ev.plan = ap.ev.plan
        /\ ev.shown = ap.ev.shown /\ ev.att = ap.ev.att /\ ev.src = ap.ev.src
        /\ ev.linked => ap.ev.linked
    BY <1>1, ApplyFields DEF Evidence
  <1>4. /\ ap' \in ApplyStates /\ ap'.pc = ap.pc /\ ap'.i = ap.i /\ ap'.final = ap.final
        /\ ap'.ev = ev /\ ap'.policy = ap.policy /\ ap'.opts = ap.opts /\ ap'.k = ap.k
        /\ ap'.controls = ap.controls /\ ap'.selected = ap.selected
    BY <1>1, <1>2, <1>3 DEF TypeOK, ApplyStates
  <1>5. TypeOK'
    BY <1>1, <1>4 DEF TypeOK, external
  <1>6. SnapshotBound' /\ Gated'
    <2>1. ap.pc \notin SelectPCs
      BY DEF ApplyInv, SnapshotBound, DisturbSnapshot, NoEvidence
    <2> QED BY <1>3, <1>4, <2>1 DEF ApplyInv, SnapshotBound, Gated, OuterPCs
  <1>7. ChangesSeen'
    <2>1. ASSUME NEW x \in Checks
          PROVE  Holds(x)' <=> Holds(x)
      <3>1. aroot' = aroot /\ ExpectedRoots' = ExpectedRoots /\ SavedRoots' = SavedRoots
        BY <1>1, <1>4 DEF aroot, ExpectedRoots, SavedRoots
      <3> QED BY <1>1, <1>3, <1>4, <3>1 DEF Holds, Bound, Checks, PlanSources
    <2> QED BY <1>1, <1>4, <2>1 DEF ApplyInv, ChangesSeen, Rechecked
  <1>8. OnlyConsentedApplied' /\ NoUnseenChangeAtApply'
    BY <1>1 DEF ApplyInv, OnlyConsentedApplied, NoUnseenChangeAtApply
  <1> QED BY <1>5, <1>6, <1>7, <1>8 DEF ApplyInv

-----------------------------------------------------------------------------
LEMMA ApplyInvInit ==
  ASSUME Init
  PROVE  ApplyInv
  <1>1. TypeOK
    BY SPInitType, ApplyIdleType DEF Init, TypeOK, ApplyIdle
  <1>2. SnapshotBound /\ Gated /\ ChangesSeen
    BY DEF Init, ApplyIdle, NoEvidence, SnapshotBound, Gated, ChangesSeen, OuterPCs, SelectPCs
  <1>3. OnlyConsentedApplied /\ NoUnseenChangeAtApply
    BY DEF Init, OnlyConsentedApplied, NoUnseenChangeAtApply
  <1> QED BY <1>1, <1>2, <1>3 DEF ApplyInv

LEMMA ApplyInvStep ==
  ASSUME ApplyInv, [Next]_vars
  PROVE  ApplyInv'
  <1>1. CASE UNCHANGED vars
    <2>1. TypeOK' /\ touched \subseteq touched'
      BY <1>1 DEF vars, ApplyInv, TypeOK, SPTypeOK
    <2>2. \A x \in Checks : Holds(x)' <=> Holds(x)
      BY <1>1, HoldsOn DEF vars
    <2> QED BY <1>1, <2>1, <2>2, OthersKeepApplyInv DEF vars
  <1>2. CASE ApplyStep
    BY <1>2, LoadKeepsInv, PrepareKeepsInv, ApplyInitializeKeepsInv, RecheckKeepsInv,
       OpenKeepsInv, ShowKeepsInv, GateKeepsInv, DescriptorKeepsInv, TerraformApplyKeepsInv,
       DropKeepsInv, CleanupKeepsInv DEF ApplyStep
  <1> QED BY <1>1, <1>2, StartKeepsInv, CrashKeepsInv, OthersStepKeepsInv, EditKeepsInv,
             DisturbKeepsInv DEF Next

\* Every reachable state of the apply next to its planners is well typed.
THEOREM ApplyTypeCorrect == Spec => []TypeOK
  <1>1. ApplyInv => TypeOK
    BY DEF ApplyInv
  <1> QED BY <1>1, ApplyInvInit, ApplyInvStep, PTL DEF Spec

\* Whatever Terraform applies was consented to, judged on the applied bytes:
\* in every workspace, whatever planners, cleaners and editors do to plan,
\* policy and snapshot while the apply runs.
THEOREM OnlyConsentedIsApplied == Spec => []OnlyConsentedApplied
  <1>1. ApplyInv => OnlyConsentedApplied
    BY DEF ApplyInv
  <1> QED BY <1>1, ApplyInvInit, ApplyInvStep, PTL DEF Spec

\* Everything an apply depends on was rechecked after the plan was judged: what
\* differs when Terraform starts was changed after that recheck began.
THEOREM NoUnseenChangeIsApplied == Spec => []NoUnseenChangeAtApply
  <1>1. ApplyInv => NoUnseenChangeAtApply
    BY DEF ApplyInv
  <1> QED BY <1>1, ApplyInvInit, ApplyInvStep, PTL DEF Spec

-----------------------------------------------------------------------------
(* What a whole run amounts to, next to one `iw plan` at a time, clean-plans, editors and
   kills: it implements the promise of ApprovedApply, applies plans computed from the
   inputs they declare and leaves no snapshot behind. *)

\* From reading the evidence of a root to its apply; after a successful apply;
\* and at work on a root.
BeforePCs == {"prepare", "init", "recheck", "open", "show", "gate", "fdCheck", "apply"}
DropPCs   == {"dropPlan", "dropSources", "dropAttest"}
InnerPCs  == BeforePCs \cup DropPCs \cup {"cleanup"}

\* What is read of the evidence is a known plan; its attestation binds it; and
\* once the plan was found unchanged after its declaration was, they belong
\* together.
Evident(p) ==
    /\ ap.pc \in SelectPCs => ap.k = 1
    /\ ap.pc \in InnerPCs /\ ap.ev.plan # Null => KnownPlan(p, aroot, ap.ev.plan)
    /\ ap.pc = "prepare" => ap.k \in 1..Len(PrepareScript)
    /\ ap.pc = "prepare" /\ ap.k > 1 => ap.ev.src \notin {Null, Torn}
    /\ ap.pc = "prepare" /\ ap.k > 3 => ap.ev.plan # Null
    /\ ap.pc \in BeforePCs /\ (ap.pc = "prepare" => ap.k > 6) /\ ap.ev.att # Null
         => ap.ev.att.targets = ap.ev.plan.targets
    /\ ap.pc = "prepare" /\ ap.k \in 8..9 /\ tfplan[aroot] = ap.ev.plan
         => DeclaredBy(p, ap.ev.plan, ap.ev.src)
    /\ ap.pc \in BeforePCs /\ (ap.pc = "prepare" => ap.k > 9)
         => ap.ev.plan # Null /\ DeclaredBy(p, ap.ev.plan, ap.ev.src)

\* Every plan applied is known and declared, and approved for its scope.
Logged(p) ==
    \A n \in 1..Len(log) :
      /\ log[n].at \in 1..Len(Order) /\ log[n].plan # Null
      /\ log[n].plan.id \in 1..plans
      /\ DeclaredBy(p, log[n].plan, log[n].src)
      /\ \/ log[n].plan.body.complete
         \/ log[n].plan.targets = ImportingAddresses(log[n].plan.body)

\* The roots applied so far, and those of them whose applied plan is still saved.
LogRoots == {Order[log[n].at] : n \in 1..Len(log)}
StillSaved == {Order[log[n].at] : n \in {m \in 1..Len(log) : tfplan[Order[log[m].at]] = log[m].plan}}
SelectedTo(i) == ap.selected \cap {Order[j] : j \in 1..i}

\* The selected roots up to the current one were applied, under the terms of
\* this run, and their plans are gone.
Running ==
    /\ ap.failing => ap.pc = "cleanup"
    /\ ap.pc \in SelectPCs => ap.selected = {} /\ log = <<>>
    /\ ap.pc \in InnerPCs =>
         /\ aroot \in ap.selected
         /\ \A n \in 1..Len(log) : TermsOf(log[n]) = [policy |-> ap.policy, opts |-> ap.opts]
         /\ ~ap.failing => \A n \in 1..Len(log) : log[n].ok
         /\ ap.pc \in BeforePCs => LogRoots = SelectedTo(ap.i - 1) /\ StillSaved = {}
         /\ ap.pc \in DropPCs \/ (ap.pc = "cleanup" /\ ~ap.failing)
              => /\ LogRoots = SelectedTo(ap.i)
                 /\ StillSaved \subseteq (IF ap.pc = "dropPlan" THEN {aroot} ELSE {})

PromiseInv(p) ==
    /\ ApplyInv /\ SoleInv(p)
    /\ Evident(p) /\ Logged(p) /\ Running

-----------------------------------------------------------------------------
(* The snapshot *)

\* No copy is left while a run goes on, and an end that leaves one is a failure.
LEMMA ScrubbedStep ==
  ASSUME ApplyInv, SnapshotScrubbed, [Next]_vars
  PROVE  SnapshotScrubbed'
  <1>1. TypeOK
    BY DEF ApplyInv
  <1>2. ASSUME ap'.left = ap.left, ap'.pc = ap.pc, ap'.i = ap.i
        PROVE  SnapshotScrubbed'
    BY <1>2 DEF SnapshotScrubbed, aroot
  <1>3. ASSUME ap'.left = {}
        PROVE  SnapshotScrubbed'
    BY <1>3 DEF SnapshotScrubbed
  <1>4. CASE \/ UNCHANGED vars \/ OthersStep
             \/ (\E c \in Policies : EditPolicy(c)) \/ (\E c \in Controls : EditControls(c))
    BY <1>2, <1>4 DEF OthersStep, EditPolicy, EditControls, vars
  <1>5. ASSUME NEW opts \in Options, NEW onMain \in BOOLEAN, StartApply(opts, onMain)
        PROVE  SnapshotScrubbed'
    <2>1. ap'.left = {}
      BY <1>5 DEF StartApply, ApplyIdle
    <2> QED BY <1>3, <2>1
  <1>6. CASE ApplyCrash
    BY <1>3, <1>6 DEF ApplyCrash, ApplyIdle
  <1>7. CASE DisturbSnapshot
    BY <1>1, <1>2, <1>7 DEF DisturbSnapshot, TypeOK, ApplyStates
  <1>8. CASE ApplyStep
    <2>1. ap.left = {}
      BY <1>8 DEF SnapshotScrubbed, ApplyStep, LoadPolicy, LoadInputs, RecheckControls,
         Materialize, Prepare, ApplyInitialize, Recheck, OpenSnapshot, ShowSnapshot, Gate,
         RecheckDescriptor, TerraformApply, DropApplied, Cleanup
    <2>2. CASE Cleanup
      <3>1. PICK left \in SUBSET Roots :
              /\ left \subseteq {aroot}
              /\ \/ ap' = [Ended("failed") EXCEPT !.left = left]
                 \/ left = {} /\ ap' = [Ended("done") EXCEPT !.left = left]
                 \/ /\ left = {}
                    /\ \E i \in (ap.i + 1)..Len(Order) :
                         ap' = [ap EXCEPT !.ev = NoEvidence, !.k = 1, !.final = FALSE,
                                          !.i = i, !.left = left, !.pc = "prepare"]
        BY <1>1, <2>1, <2>2, CleanupWays
      <3>2. CASE ap' = [Ended("failed") EXCEPT !.left = left]
        <4>1. ap'.pc = "failed" /\ ap'.left = left /\ ap'.i = ap.i
          BY <3>2 DEF Ended, ApplyIdle
        <4>2. aroot' = aroot
          BY <4>1 DEF aroot
        <4> QED BY <3>1, <4>1, <4>2 DEF SnapshotScrubbed
      <3>3. CASE left = {} /\ ap' = [Ended("done") EXCEPT !.left = left]
        BY <1>3, <3>3 DEF Ended, ApplyIdle
      <3>4. CASE /\ left = {}
                 /\ \E i \in (ap.i + 1)..Len(Order) :
                      ap' = [ap EXCEPT !.ev = NoEvidence, !.k = 1, !.final = FALSE,
                                       !.i = i, !.left = left, !.pc = "prepare"]
        BY <1>1, <1>3, <3>4 DEF TypeOK, ApplyStates
      <3> QED BY <3>1, <3>2, <3>3, <3>4
    <2>3. CASE \/ LoadPolicy \/ LoadInputs \/ RecheckControls \/ Materialize
               \/ Prepare \/ ApplyInitialize \/ Recheck \/ OpenSnapshot \/ ShowSnapshot \/ Gate
               \/ RecheckDescriptor \/ TerraformApply \/ DropApplied
      <3>1. ap'.left = ap.left
        BY <1>1, <2>3
           DEF LoadPolicy, LoadInputs, RecheckControls, Materialize, Prepare, ApplyInitialize,
               Recheck, OpenSnapshot, ShowSnapshot, Gate, RecheckDescriptor, TerraformApply,
               DropApplied, AGoto, Refuse, TypeOK, ApplyStates
      <3> QED BY <1>3, <2>1, <3>1
    <2> QED BY <1>8, <2>2, <2>3 DEF ApplyStep
  <1> QED BY <1>4, <1>5, <1>6, <1>7, <1>8 DEF Next

\* A copy that a scrub leaves behind, intact or without its name, fails the run
\* at its root: for any options, roots, planners, editors and disturbances of the
\* private directory, a run that succeeds or goes on left none (the deferred
\* cleanup of applyExactPlanRoot).
THEOREM SnapshotIsScrubbed == Spec => []SnapshotScrubbed
  <1>1. Init => SnapshotScrubbed
    BY DEF Init, ApplyIdle, SnapshotScrubbed
  <1> QED BY <1>1, ApplyInvInit, ApplyInvStep, ScrubbedStep, PTL DEF Spec

-----------------------------------------------------------------------------
(* What a step keeps that does not apply a plan *)

\* The entries of the log stay known and declared.
LEMMA LoggedKept ==
  ASSUME NEW p \in Planners, PromiseInv(p), WorldKeeps(p), UNCHANGED log
  PROVE  Logged(p)' /\ StillSaved' \subseteq StillSaved
  <1>1. ASSUME NEW n \in 1..Len(log)
        PROVE  /\ log[n].plan \in SavedPlans \ {Null} /\ log[n].plan.id \in 1..plans
               /\ Order[log[n].at] \in Roots
               /\ DeclaredBy(p, log[n].plan, log[n].src)
    <2>1. log[n] \in LogEntries
      BY DEF PromiseInv, ApplyInv, TypeOK
    <2> QED BY <2>1, OrderInRoots DEF PromiseInv, Logged, LogEntries, ConstantRoots
  <1>2. ASSUME NEW n \in 1..Len(log)
        PROVE  /\ log[n].plan.id \in 1..plans'
               /\ DeclaredBy(p, log[n].plan, log[n].src)'
               /\ tfplan'[Order[log[n].at]] = log[n].plan
                    => tfplan[Order[log[n].at]] = log[n].plan
    <2>1. PICK x, r, src :
            /\ x \in SavedPlans \ {Null} /\ r \in Roots
            /\ x = log[n].plan /\ r = Order[log[n].at] /\ src = log[n].src
      BY <1>1
    <2>2. /\ x.id \in 1..plans' /\ DeclaredBy(p, x, src)'
          /\ tfplan'[r] = x => tfplan[r] = x
      BY <1>1, <2>1, Zenon DEF WorldKeeps
    <2> QED BY <2>1, <2>2 DEF DeclaredBy
  <1>3. Logged(p)'
    BY <1>2 DEF PromiseInv, Logged
  <1>4. StillSaved' \subseteq StillSaved
    BY <1>2 DEF StillSaved
  <1> QED BY <1>3, <1>4

\* The evidence of the current root, as long as it is not touched.
LEMMA EvidentKept ==
  ASSUME NEW p \in Planners, PromiseInv(p), WorldKeeps(p),
         ap.pc \in InnerPCs, ap'.pc \in InnerPCs, ap'.i = ap.i,
         ap'.ev.src = ap.ev.src, ap'.ev.plan = ap.ev.plan, ap'.ev.att = ap.ev.att,
         ap'.pc \in BeforePCs => ap.pc \in BeforePCs,
         ap'.pc = "prepare" => ap.pc = "prepare" /\ ap'.k = ap.k,
         ap.pc = "prepare" => ap'.pc \in {"prepare", "cleanup"}
  PROVE  Evident(p)'
  <1>1. PICK r, x, src :
          /\ r \in Roots /\ x \in SavedPlans \cup {Null}
          /\ r = aroot /\ x = ap.ev.plan /\ src = ap.ev.src
    BY ApplyFields DEF PromiseInv, ApplyInv, InnerPCs, BeforePCs, DropPCs, OuterPCs, SelectPCs
  <1>2. aroot' = r
    BY <1>1 DEF aroot
  <1>3. ap.ev.plan # Null => KnownPlan(p, r, x)
    BY <1>1 DEF PromiseInv, Evident
  <1>4. ap'.ev.plan # Null => KnownPlan(p, aroot, ap.ev.plan)'
    <2> SUFFICES ASSUME x # Null PROVE KnownPlan(p, aroot, ap.ev.plan)'
      BY <1>1
    <2>1. x.id \in 1..plans
      BY <1>1, <1>3 DEF KnownPlan
    <2>2. KnownPlan(p, r, x)'
      BY <1>1, <1>3, <2>1, Zenon DEF WorldKeeps
    <2> QED BY <1>1, <1>2, <2>2 DEF KnownPlan
  <1>5. ASSUME DeclaredBy(p, x, src), x # Null
        PROVE  DeclaredBy(p, ap.ev.plan, ap.ev.src)'
    <2>1. x.id \in 1..plans
      BY <1>1, <1>3, <1>5 DEF KnownPlan
    <2>2. DeclaredBy(p, x, src)'
      BY <1>1, <1>5, <2>1, Zenon DEF WorldKeeps
    <2> QED BY <1>1, <2>2 DEF DeclaredBy
  <1>6. ASSUME x # Null, tfplan'[r] = x
        PROVE  tfplan[r] = x
    <2>1. x.id \in 1..plans
      BY <1>1, <1>3, <1>6 DEF KnownPlan
    <2> QED BY <1>1, <1>6, <2>1, Zenon DEF WorldKeeps
  <1>7. ASSUME ap'.pc = "prepare"
        PROVE  Evident(p)'
    <2>1. ap.pc = "prepare" /\ ap'.k = ap.k
      BY <1>7
    <2>2. /\ ap.k \in 1..12
          /\ ap.k > 1 => src \notin {Null, Torn}
          /\ ap.k > 3 => x # Null
          /\ ap.k > 6 /\ ap.ev.att # Null => ap.ev.att.targets = x.targets
          /\ ap.k \in 8..9 /\ tfplan[r] = x => DeclaredBy(p, x, src)
          /\ ap.k > 9 => DeclaredBy(p, x, src)
      BY <1>1, <2>1 DEF PromiseInv, Evident, BeforePCs, PrepareScript
    <2>3. ap.k > 3 => x # Null
      BY <2>2
    <2>4. /\ ap.k \in 8..9 /\ tfplan'[r] = x => DeclaredBy(p, ap.ev.plan, ap.ev.src)'
          /\ ap.k > 9 => DeclaredBy(p, ap.ev.plan, ap.ev.src)'
      <3>1. ASSUME ap.k \in 8..9, tfplan'[r] = x
            PROVE  DeclaredBy(p, ap.ev.plan, ap.ev.src)'
        BY <1>5, <1>6, <2>2, <3>1
      <3>2. ASSUME ap.k > 9
            PROVE  DeclaredBy(p, ap.ev.plan, ap.ev.src)'
        <4>1. ap.k > 3
          BY <2>2, <3>2
        <4> QED BY <1>5, <2>2, <3>2, <4>1
      <3> QED BY <3>1, <3>2
    <2> QED BY <1>1, <1>2, <1>4, <1>7, <2>1, <2>2, <2>4 DEF Evident, PrepareScript, SelectPCs
  <1>8. ASSUME ap'.pc # "prepare"
        PROVE  Evident(p)'
    <2>1. ap'.pc \in BeforePCs
            => /\ ap.ev.plan # Null
               /\ ap.ev.att # Null => ap.ev.att.targets = ap.ev.plan.targets
               /\ DeclaredBy(p, x, src)
      BY <1>1, <1>8 DEF PromiseInv, Evident, BeforePCs
    <2>2. ap'.pc \notin SelectPCs
      BY DEF InnerPCs, BeforePCs, DropPCs, SelectPCs
    <2> QED BY <1>1, <1>4, <1>5, <1>8, <2>1, <2>2 DEF Evident
  <1> QED BY <1>7, <1>8

\* The run, by a step that stays with the current root.
LEMMA RunningKept ==
  ASSUME NEW p \in Planners, PromiseInv(p), WorldKeeps(p), UNCHANGED log,
         ap.pc \in InnerPCs, ap'.pc \in InnerPCs, ap'.i = ap.i, ap'.selected = ap.selected,
         ap'.policy = ap.policy, ap'.opts = ap.opts,
         ap'.failing => ap'.pc = "cleanup",
         ~ap'.failing =>
            /\ ~ap.failing
            /\ \/ ap.pc \in BeforePCs /\ ap'.pc \in BeforePCs
               \/ ap.pc = ap'.pc
               \/ ap.pc \in DropPCs /\ ap'.pc \in (DropPCs \ {"dropPlan"}) \cup {"cleanup"}
            /\ ap.pc = "dropPlan" /\ ap'.pc # "dropPlan" => tfplan'[aroot] = Null
  PROVE  Running'
  <1>1. Running /\ ap.pc \notin SelectPCs /\ ap'.pc \notin SelectPCs
    BY DEF PromiseInv, InnerPCs, BeforePCs, DropPCs, SelectPCs
  <1>2. aroot' = aroot /\ LogRoots' = LogRoots
    BY DEF aroot, LogRoots
  <1>3. /\ SelectedTo(ap.i - 1)' = SelectedTo(ap.i - 1)
        /\ SelectedTo(ap.i)' = SelectedTo(ap.i)
    BY DEF SelectedTo
  <1>4. StillSaved' \subseteq StillSaved
    BY LoggedKept
  <1>5. ASSUME ~ap'.failing
        PROVE  /\ ap'.pc \in BeforePCs => LogRoots' = SelectedTo(ap.i - 1)' /\ StillSaved' = {}
               /\ ap'.pc \in DropPCs \/ ap'.pc = "cleanup"
                    => /\ LogRoots' = SelectedTo(ap.i)'
                       /\ StillSaved' \subseteq (IF ap'.pc = "dropPlan" THEN {aroot} ELSE {})
    <2>1. CASE ap'.pc \in BeforePCs
      <3>1. ap.pc \in BeforePCs /\ ap'.pc \notin DropPCs \cup {"cleanup"}
        BY <1>5, <2>1 DEF BeforePCs, DropPCs
      <3> QED BY <1>1, <1>2, <1>3, <1>4, <3>1 DEF Running
    <2>2. CASE ap'.pc \notin BeforePCs
      <3>1. /\ ap.pc \in DropPCs \/ ap.pc = "cleanup"
            /\ ap'.pc = "dropPlan" => ap.pc = "dropPlan"
        BY <1>5, <2>2 DEF InnerPCs
      <3>2. /\ LogRoots = SelectedTo(ap.i)
            /\ StillSaved \subseteq (IF ap.pc = "dropPlan" THEN {aroot} ELSE {})
        BY <1>1, <1>5, <3>1 DEF Running
      <3>3. ASSUME ap.pc = "dropPlan", ap'.pc # "dropPlan"
            PROVE  aroot \notin StillSaved'
        <4>1. tfplan'[aroot] = Null
          BY <1>5, <3>3
        <4>2. \A n \in 1..Len(log) : log[n].plan # Null
          BY DEF PromiseInv, Logged
        <4> QED BY <4>1, <4>2 DEF StillSaved
      <3> QED BY <1>2, <1>3, <1>4, <2>2, <3>1, <3>2, <3>3
    <2> QED BY <2>1, <2>2
  <1>6. /\ aroot' \in ap'.selected
        /\ \A n \in 1..Len(log') : TermsOf(log'[n]) = [policy |-> ap'.policy, opts |-> ap'.opts]
        /\ ~ap'.failing => \A n \in 1..Len(log') : log'[n].ok
    BY <1>1, <1>2 DEF Running, TermsOf
  <1>7. ap'.pc \in BeforePCs \/ ap'.pc \in DropPCs => ~ap'.failing
    BY DEF BeforePCs, DropPCs
  <1> QED BY <1>1, <1>2, <1>5, <1>6, <1>7 DEF Running, SelectedTo

-----------------------------------------------------------------------------
(* The steps *)

\* The run itself only lets files disappear, and terraform init may write.
FilesMayGo ==
    /\ UNCHANGED <<pl, plans, churn>>
    /\ \A r \in Roots : /\ tfplan'[r] \in {tfplan[r], Null}
                        /\ sources'[r] \in {sources[r], Null}
                        /\ attest'[r] \in {attest[r], Null}
                        /\ \/ inputs'[r] = inputs[r] /\ epoch'[r] = epoch[r]
                           \/ epoch'[r] = epoch[r] + 1

LEMMA RunWorld ==
  ASSUME TypeOK, [Next]_vars, ~OthersStep
  PROVE  FilesMayGo
  <1>1. ASSUME UNCHANGED <<inputs, tfplan, sources, attest, pl, plans, epoch, churn>>
        PROVE  FilesMayGo
    BY <1>1 DEF FilesMayGo
  <1>2. CASE ApplyInitialize
    <2>1. UNCHANGED <<tfplan, sources, attest, pl, plans, churn>>
      BY <1>2 DEF ApplyInitialize
    <2>2. \A r \in Roots : \/ inputs'[r] = inputs[r] /\ epoch'[r] = epoch[r]
                           \/ epoch'[r] = epoch[r] + 1
      BY <1>2 DEF ApplyInitialize, TerraformInit, ChangeInputs
    <2> QED BY <2>1, <2>2 DEF FilesMayGo
  <1>3. CASE DropApplied
    <2>1. UNCHANGED <<inputs, epoch, pl, plans, churn>>
      BY <1>3 DEF DropApplied
    <2>2. \A r \in Roots : /\ tfplan'[r] \in {tfplan[r], Null}
                           /\ sources'[r] \in {sources[r], Null}
                           /\ attest'[r] \in {attest[r], Null}
      BY <1>3 DEF DropApplied, TypeOK, SPTypeOK
    <2> QED BY <2>1, <2>2 DEF FilesMayGo
  <1>4. CASE ApplyStep /\ ~ApplyInitialize /\ ~DropApplied
    BY <1>1, <1>4
       DEF ApplyStep, LoadPolicy, LoadInputs, RecheckControls, Materialize, Prepare, Recheck,
           OpenSnapshot, ShowSnapshot, Gate, RecheckDescriptor, TerraformApply, Cleanup, spState
  <1>5. CASE ApplyCrash \/ DisturbSnapshot
             \/ (\E opts \in Options, onMain \in BOOLEAN : StartApply(opts, onMain))
             \/ (\E c \in Policies : EditPolicy(c)) \/ (\E c \in Controls : EditControls(c))
    BY <1>1, <1>5 DEF ApplyCrash, DisturbSnapshot, StartApply, EditPolicy, EditControls, spState
  <1>6. CASE UNCHANGED vars
    BY <1>1, <1>6 DEF vars
  <1> QED BY <1>2, <1>3, <1>4, <1>5, <1>6 DEF Next

\* The world of every step, and the planner's part of the invariant.
LEMMA StepWorld ==
  ASSUME NEW p \in Planners, Planners = {p}, PromiseInv(p), [Next]_vars
  PROVE  ApplyInv' /\ SoleInv(p)' /\ WorldKeeps(p)
  <1>1. ApplyInv /\ TypeOK /\ SoleInv(p)
    BY DEF PromiseInv, ApplyInv
  <1>2. ApplyInv' /\ SPTypeOK'
    BY <1>1, ApplyInvStep DEF ApplyInv, TypeOK
  <1>3. CASE OthersStep
    BY <1>1, <1>2, <1>3, SoleInvStep, WorldStep DEF OthersStep
  <1>4. CASE ~OthersStep
    <2>1. FilesMayGo
      BY <1>1, <1>4, RunWorld
    <2>2. SoleInv(p)'
      BY <1>1, <1>2, <2>1, OthersKeepSoleInv DEF FilesMayGo
    <2>3. WorldKeeps(p)
      BY <2>1, QuietWorld DEF FilesMayGo
    <2> QED BY <1>2, <2>2, <2>3
  <1> QED BY <1>3, <1>4

\* Steps of others, and of the private directory.
LEMMA OthersKeepPromise ==
  ASSUME NEW p \in Planners, Planners = {p}, PromiseInv(p), [Next]_vars, UNCHANGED log,
         ap' = ap \/ DisturbSnapshot
  PROVE  PromiseInv(p)'
  <1>1. ApplyInv' /\ SoleInv(p)' /\ WorldKeeps(p) /\ TypeOK
    BY StepWorld DEF PromiseInv, ApplyInv
  <1>2. Logged(p)'
    BY <1>1, LoggedKept
  <1>3. /\ ap'.pc = ap.pc /\ ap'.k = ap.k /\ ap'.i = ap.i /\ ap'.selected = ap.selected
        /\ ap'.policy = ap.policy /\ ap'.opts = ap.opts /\ ap'.failing = ap.failing
        /\ ap'.ev.src = ap.ev.src /\ ap'.ev.plan = ap.ev.plan /\ ap'.ev.att = ap.ev.att
    BY <1>1 DEF DisturbSnapshot, TypeOK, ApplyStates, Evidence
  <1>4. CASE ap.pc \in InnerPCs
    <2>1. Evident(p)'
      BY <1>1, <1>3, <1>4, EvidentKept DEF InnerPCs, BeforePCs, DropPCs
    <2>2. ap.failing => ap.pc = "cleanup"
      BY DEF PromiseInv, Running
    <2>3. ap.pc \in BeforePCs => ap'.pc \in BeforePCs
      BY <1>3
    <2>4. Running'
      BY <1>1, <1>3, <1>4, <2>2, <2>3, RunningKept
    <2> QED BY <1>1, <1>2, <2>1, <2>4 DEF PromiseInv
  <1>5. CASE ap.pc \notin InnerPCs
    <2>1. ap.pc \notin BeforePCs /\ ap.pc # "prepare"
      BY <1>5 DEF InnerPCs, BeforePCs
    <2>2. Evident(p)' /\ Running'
      BY <1>3, <1>5, <2>1 DEF PromiseInv, Evident, Running
    <2> QED BY <1>1, <1>2, <2>2 DEF PromiseInv
  <1> QED BY <1>4, <1>5

LEMMA RefuseKeepsPromise ==
  ASSUME NEW p \in Planners, Planners = {p}, PromiseInv(p), [Next]_vars, UNCHANGED log,
         Refuse, ap.pc \in InnerPCs
  PROVE  PromiseInv(p)'
  <1>1. ApplyInv' /\ SoleInv(p)' /\ WorldKeeps(p) /\ TypeOK
    BY StepWorld DEF PromiseInv, ApplyInv
  <1>2. /\ ap'.pc = "cleanup" /\ ap'.k = ap.k /\ ap'.i = ap.i /\ ap'.selected = ap.selected
        /\ ap'.ev = ap.ev /\ ap'.policy = ap.policy /\ ap'.opts = ap.opts /\ ap'.failing
    BY <1>1, AfterRefuse
  <1>3. ap'.pc \in InnerPCs /\ ap'.pc \notin BeforePCs
    BY <1>2 DEF InnerPCs, BeforePCs
  <1>4. Evident(p)'
    BY <1>1, <1>2, <1>3, EvidentKept
  <1>5. Running'
    BY <1>1, <1>2, <1>3, RunningKept
  <1>6. Logged(p)'
    BY <1>1, LoggedKept
  <1> QED BY <1>1, <1>4, <1>5, <1>6 DEF PromiseInv

\* A step that begins, selects or ends a run, or kills it.
LEMMA OutsideKeepsPromise ==
  ASSUME NEW p \in Planners, Planners = {p}, PromiseInv(p), [Next]_vars,
         ap'.pc \notin InnerPCs, ~ap'.failing, log' = log \/ log' = <<>>,
         ap'.pc \in SelectPCs => ap'.selected = {} /\ log' = <<>> /\ ap'.k = 1
  PROVE  PromiseInv(p)'
  <1>1. ApplyInv' /\ SoleInv(p)' /\ WorldKeeps(p)
    BY StepWorld
  <1>2. Logged(p)'
    <2>1. CASE log' = log
      BY <1>1, <2>1, LoggedKept
    <2>2. CASE log' = <<>>
      BY <2>2 DEF Logged
    <2> QED BY <2>1, <2>2
  <1>3. ap'.pc \notin BeforePCs /\ ap'.pc # "prepare"
    BY DEF InnerPCs, BeforePCs
  <1>4. Evident(p)'
    BY <1>3 DEF Evident
  <1>5. Running'
    BY DEF Running
  <1> QED BY <1>1, <1>2, <1>4, <1>5 DEF PromiseInv

\* A step on with the same evidence, between its preparation and the apply.
LEMMA MoveKeepsPromise ==
  ASSUME NEW p \in Planners, Planners = {p}, PromiseInv(p), [Next]_vars, UNCHANGED log,
         ap.pc \in BeforePCs \ {"prepare"}, ap'.pc \in BeforePCs \ {"prepare"},
         ap'.i = ap.i, ap'.selected = ap.selected, ap'.policy = ap.policy,
         ap'.opts = ap.opts, ap'.failing = ap.failing,
         ap'.ev.src = ap.ev.src, ap'.ev.plan = ap.ev.plan, ap'.ev.att = ap.ev.att
  PROVE  PromiseInv(p)'
  <1>1. ApplyInv' /\ SoleInv(p)' /\ WorldKeeps(p)
    BY StepWorld
  <1>2. ap.pc \in InnerPCs /\ ap'.pc \in InnerPCs /\ ap.pc \notin {"dropPlan", "cleanup"}
    BY DEF InnerPCs, BeforePCs
  <1>3. Evident(p)'
    BY <1>1, <1>2, EvidentKept
  <1>4. ap.failing => ap.pc = "cleanup"
    BY DEF PromiseInv, Running
  <1>5. Running'
    BY <1>1, <1>2, <1>4, RunningKept
  <1>6. Logged(p)'
    BY <1>1, LoggedKept
  <1> QED BY <1>1, <1>3, <1>5, <1>6 DEF PromiseInv

LEMMA StartKeepsPromise ==
  ASSUME NEW p \in Planners, Planners = {p}, PromiseInv(p), [Next]_vars,
         \/ \E opts \in Options, onMain \in BOOLEAN : StartApply(opts, onMain)
         \/ ApplyCrash
  PROVE  PromiseInv(p)'
  <1>1. CASE ApplyCrash
    <2>1. ap' = ApplyIdle /\ log' = <<>>
      BY <1>1 DEF ApplyCrash
    <2>2. /\ ap'.pc = "idle" /\ ap'.failing = FALSE /\ ap'.selected = {} /\ ap'.k = 1
      BY <2>1 DEF ApplyIdle
    <2> QED BY <2>1, <2>2, OutsideKeepsPromise DEF InnerPCs, BeforePCs, DropPCs
  <1>2. ASSUME NEW opts \in Options, NEW onMain \in BOOLEAN, StartApply(opts, onMain)
        PROVE  PromiseInv(p)'
    <2>1. /\ log' = <<>>
          /\ ap' = [ApplyIdle EXCEPT !.opts = opts,
                                     !.pc = IF onMain \/ opts.allowNonMain
                                            THEN "policy" ELSE "failed"]
      BY <1>2 DEF StartApply
    <2>2. /\ ap'.pc \in {"policy", "failed"} /\ ap'.failing = FALSE
          /\ ap'.selected = {} /\ ap'.k = 1
      BY <2>1 DEF ApplyIdle
    <2> QED BY <2>1, <2>2, OutsideKeepsPromise DEF InnerPCs, BeforePCs, DropPCs
  <1> QED BY <1>1, <1>2

LEMMA LoadKeepsPromise ==
  ASSUME NEW p \in Planners, Planners = {p}, PromiseInv(p), [Next]_vars,
         LoadPolicy \/ LoadInputs \/ RecheckControls \/ Materialize
  PROVE  PromiseInv(p)'
  <1>1. /\ TypeOK /\ ap.pc \in SelectPCs /\ UNCHANGED log
        /\ ap.ev = NoEvidence
    BY DEF PromiseInv, ApplyInv, SnapshotBound, LoadPolicy, LoadInputs, RecheckControls,
           Materialize, SelectPCs
  <1>2. ap.selected = {} /\ log = <<>> /\ ~ap.failing /\ ap.k = 1
    BY <1>1 DEF PromiseInv, Running, Evident, SelectPCs
  <1>3. ASSUME ap'.pc \in {"controls", "bound", "materialize", "failed"},
               ap'.selected = ap.selected, ap'.failing = ap.failing, ap'.k = ap.k
        PROVE  PromiseInv(p)'
    BY <1>1, <1>2, <1>3, OutsideKeepsPromise DEF InnerPCs, BeforePCs, DropPCs
  <1>4. CASE LoadPolicy \/ LoadInputs
    <2>1. /\ ap'.pc \in {"controls", "bound"}
          /\ ap'.selected = ap.selected /\ ap'.failing = ap.failing /\ ap'.k = ap.k
      BY <1>1, <1>4 DEF LoadPolicy, LoadInputs, TypeOK, ApplyStates
    <2> QED BY <1>3, <2>1
  <1>5. CASE RecheckControls \/ (Materialize /\ AGoto("failed"))
    <2>1. AGoto("materialize") \/ AGoto("failed")
      BY <1>5 DEF RecheckControls
    <2> QED BY <1>1, <1>3, <2>1, AfterAGoto DEF ApplyPCs
  <1>6. CASE Materialize /\ ~AGoto("failed")
    <2>1. PICK i \in 1..Len(Order) :
            /\ FirstSelected(SavedRoots, 1, i)
            /\ ap' = [ap EXCEPT !.selected = SavedRoots, !.i = i, !.pc = "prepare"]
      BY <1>6 DEF Materialize
    <2>2. /\ ap'.pc = "prepare" /\ ap'.selected = SavedRoots /\ ap'.i = i
          /\ ap'.k = 1 /\ ap'.ev = NoEvidence /\ ap'.failing = FALSE
          /\ ap'.policy = ap.policy /\ ap'.opts = ap.opts
      BY <1>1, <1>2, <2>1 DEF TypeOK, ApplyStates
    <2>3. aroot' = Order[i] /\ UNCHANGED log
      BY <1>1, <2>2 DEF aroot
    <2>4. ApplyInv' /\ SoleInv(p)' /\ Logged(p)'
      BY <1>1, StepWorld, LoggedKept
    <2>5. Evident(p)'
      BY <2>2 DEF Evident, NoEvidence, BeforePCs, SelectPCs, PrepareScript
    <2>6. Running'
      <3>1. LogRoots' = {} /\ StillSaved' = {}
        BY <1>2, <2>3 DEF LogRoots, StillSaved
      <3>2. SavedRoots \cap {Order[j] : j \in 1..(i - 1)} = {}
        BY <2>1 DEF FirstSelected
      <3>3. SelectedTo(ap.i - 1)' = {}
        BY <2>2, <3>2 DEF SelectedTo
      <3>4. Order[i] \in SavedRoots
        BY <2>1 DEF FirstSelected
      <3> QED BY <1>2, <2>2, <2>3, <3>1, <3>3, <3>4
              DEF Running, InnerPCs, BeforePCs, DropPCs, SelectPCs
    <2> QED BY <2>4, <2>5, <2>6 DEF PromiseInv
  <1> QED BY <1>4, <1>5, <1>6

\* The reads of a root's evidence, each with what it binds.
LEMMA PrepareKeepsPromise ==
  ASSUME NEW p \in Planners, Planners = {p}, PromiseInv(p), [Next]_vars, Prepare
  PROVE  PromiseInv(p)'
  <1>1. /\ TypeOK /\ SoleInv(p) /\ ap.pc = "prepare" /\ UNCHANGED <<spState, log>>
        /\ ap.pc \in InnerPCs /\ ap.pc \in BeforePCs /\ ap.pc \notin OuterPCs
    BY DEF Prepare, PromiseInv, ApplyInv, InnerPCs, BeforePCs, OuterPCs, SelectPCs
  <1>2. ApplyInv' /\ SoleInv(p)' /\ WorldKeeps(p) /\ Logged(p)'
    BY <1>1, StepWorld, LoggedKept
  <1>3. CASE Refuse
    BY <1>1, <1>3, RefuseKeepsPromise
  <1>4. ASSUME NEW ev \in PreparedBy(PrepareScript[ap.k], aroot, ap.ev),
               ap' = [ap EXCEPT !.ev = ev,
                                !.k = IF @ = Len(PrepareScript) THEN 1 ELSE @ + 1,
                                !.pc = IF ap.k = Len(PrepareScript) THEN "init" ELSE "prepare"]
        PROVE  PromiseInv(p)'
    <2>1. /\ ap.k \in 1..12 /\ Len(PrepareScript) = 12
          /\ ap.k > 1 => ap.ev.src \notin {Null, Torn}
          /\ ap.k > 3 => ap.ev.plan # Null
          /\ ap.k > 6 /\ ap.ev.att # Null => ap.ev.att.targets = ap.ev.plan.targets
          /\ ap.k \in 8..9 /\ tfplan[aroot] = ap.ev.plan
               => DeclaredBy(p, ap.ev.plan, ap.ev.src)
          /\ ap.k > 9 => DeclaredBy(p, ap.ev.plan, ap.ev.src)
          /\ ap.ev.plan # Null => KnownPlan(p, aroot, ap.ev.plan)
      BY <1>1 DEF PromiseInv, Evident, PrepareScript
    <2>2. /\ ap'.ev = ev /\ ap'.i = ap.i /\ ap'.selected = ap.selected
          /\ ap'.policy = ap.policy /\ ap'.opts = ap.opts /\ ap'.failing = ap.failing
          /\ ap.k = 12 => ap'.pc = "init" /\ ap'.k = 1
          /\ ap.k < 12 => ap'.pc = "prepare" /\ ap'.k = ap.k + 1
      BY <1>1, <1>4, <2>1 DEF TypeOK, ApplyStates
    <2>3. aroot \in Roots /\ ap.ev \in Evidence /\ aroot' = aroot
      BY <1>1, <2>2, ApplyFields DEF aroot
    <2>4. PICK r \in Roots : r = aroot
      BY <2>3
    <2>5. \A x : KnownPlan(p, r, x)' <=> KnownPlan(p, r, x)
      BY <1>1 DEF KnownPlan, spState, root
    <2>6. \A x, src : DeclaredBy(p, x, src)' <=> DeclaredBy(p, x, src)
      BY <1>1 DEF DeclaredBy, spState
    <2>7. /\ ap.k > 0 => ev.src \notin {Null, Torn}
          /\ ap.k > 2 => ev.plan # Null
          /\ ap.k > 5 /\ ev.att # Null => ev.att.targets = ev.plan.targets
          /\ ap.k \in 7..8 /\ tfplan[r] = ev.plan => DeclaredBy(p, ev.plan, ev.src)
          /\ ap.k > 8 => DeclaredBy(p, ev.plan, ev.src)
          /\ ev.plan # Null => KnownPlan(p, r, ev.plan)
      <3>1. CASE ap.k = 1
        <4>1. Declared(r) /\ ev = [ap.ev EXCEPT !.src = sources[r]]
          BY <1>4, <2>4, <3>1 DEF PreparedBy, ReadsAttestation, PrepareScript
        <4>2. ev.src = sources[r] /\ ev.plan = ap.ev.plan
          BY <2>3, <4>1 DEF Evidence
        <4> QED BY <2>1, <2>4, <3>1, <4>1, <4>2 DEF Declared
      <3>2. CASE ap.k = 3
        <4>1. /\ tfplan[r] # Null
              /\ ev = [ap.ev EXCEPT !.plan = tfplan[r], !.copy = tfplan[r], !.linked = TRUE]
          BY <1>4, <2>4, <3>2 DEF PreparedBy, ReadsAttestation, PrepareScript
        <4>2. ev.src = ap.ev.src /\ ev.plan = tfplan[r]
          BY <2>3, <4>1 DEF Evidence
        <4> QED BY <1>1, <2>1, <3>2, <4>1, <4>2, SavedIsKnown
      <3>3. CASE ap.k = 6
        <4>1. /\ attest[r] = Null \/ (attest[r] # Torn /\ attest[r].plan = ap.ev.plan.id)
              /\ ev = [ap.ev EXCEPT !.att = attest[r]]
          BY <1>4, <2>4, <3>3 DEF PreparedBy, ReadsAttestation, PrepareScript
        <4>2. ev.src = ap.ev.src /\ ev.plan = ap.ev.plan /\ ev.att = attest[r]
          BY <2>3, <4>1 DEF Evidence
        <4>3. ev.plan # Null /\ KnownPlan(p, r, ev.plan)
          BY <2>1, <2>4, <3>3, <4>2
        <4>4. ev.att # Null => ev.att.targets = ev.plan.targets
          BY <4>1, <4>2, <4>3 DEF KnownPlan
        <4> QED BY <2>1, <3>3, <4>2, <4>3, <4>4
      <3>4. CASE ap.k \notin {1, 3, 6}
        <4>1. /\ PrepareScript[ap.k] \notin {"declare", "snapshot", "attest"}
              /\ ap.k = 7 => PrepareScript[ap.k] = "declared"
              /\ ap.k = 9 => PrepareScript[ap.k] = "original"
          BY <2>1, <3>4 DEF PrepareScript
        <4>2. ev = ap.ev /\ Bound(PrepareScript[ap.k], r, ap.ev)
          BY <1>4, <2>4, <4>1 DEF PreparedBy, ReadsAttestation
        <4>3. ASSUME ap.k = 7, tfplan[r] = ev.plan
              PROVE  DeclaredBy(p, ev.plan, ev.src)
          <5>1. sources[r] = ev.src
            BY <4>1, <4>2, <4>3 DEF Bound
          <5>2. Declared(r) /\ tfplan[r] # Null
            BY <2>1, <4>2, <4>3, <5>1 DEF Declared
          <5> QED BY <1>1, <4>3, <5>1, <5>2, SavedIsKnown
        <4>4. ASSUME ap.k = 9
              PROVE  DeclaredBy(p, ev.plan, ev.src)
          <5>1. tfplan[r] = ev.plan
            BY <4>1, <4>2, <4>4 DEF Bound
          <5> QED BY <2>1, <2>4, <4>2, <4>4, <5>1
        <4>5. /\ ap.k > 0 => ev.src \notin {Null, Torn}
              /\ ap.k > 2 => ev.plan # Null
              /\ ap.k > 5 /\ ev.att # Null => ev.att.targets = ev.plan.targets
          BY <2>1, <3>4, <4>2
        <4> HIDE DEF DeclaredBy, KnownPlan
        <4>6. ap.k = 8 /\ tfplan[r] = ev.plan => DeclaredBy(p, ev.plan, ev.src)
          BY <2>1, <2>4, <4>2
        <4>7. ap.k > 9 => DeclaredBy(p, ev.plan, ev.src)
          BY <2>1, <4>2
        <4>8. ev.plan # Null => KnownPlan(p, r, ev.plan)
          BY <2>1, <2>4, <4>2
        <4>9. ap.k \in 7..8 => ap.k = 7 \/ ap.k = 8
          BY <2>1
        <4>10. ap.k > 8 => ap.k = 9 \/ ap.k > 9
          BY <2>1
        <4> QED BY <4>3, <4>4, <4>5, <4>6, <4>7, <4>8, <4>9, <4>10
      <3> QED BY <3>1, <3>2, <3>3, <3>4
    <2>8. Evident(p)'
      <3>1. ap'.pc \notin SelectPCs
        BY <2>1, <2>2 DEF SelectPCs
      <3>2. ap'.ev.plan # Null => KnownPlan(p, aroot, ap.ev.plan)'
        BY <2>2, <2>3, <2>4, <2>5, <2>7 DEF KnownPlan
      <3>3. DeclaredBy(p, ap.ev.plan, ap.ev.src)' <=> DeclaredBy(p, ev.plan, ev.src)
        BY <1>1, <2>2 DEF DeclaredBy, spState
      <3>4. CASE ap.k < 12
        <4>1. /\ ap'.pc = "prepare" /\ ap'.k \in 1..12 /\ ap'.k > 1
              /\ ap'.k > 3 => ap.k > 2
              /\ ap'.k > 6 => ap.k > 5
              /\ ap'.k \in 8..9 => ap.k \in 7..8
              /\ ap'.k > 9 => ap.k > 8 /\ ap.k > 2
          BY <2>1, <2>2, <3>4
        <4>2. tfplan' = tfplan /\ Len(PrepareScript) = 12 /\ ap.k > 0
          BY <1>1, <2>1 DEF spState
        <4> QED BY <2>2, <2>3, <2>4, <2>7, <3>1, <3>2, <3>3, <4>1, <4>2 DEF Evident
      <3>5. CASE ap.k = 12
        BY <2>2, <2>7, <3>1, <3>2, <3>3, <3>5 DEF Evident
      <3> QED BY <2>1, <3>4, <3>5
    <2>9. ap'.pc \in BeforePCs /\ ap'.pc \in InnerPCs /\ ap.pc \notin {"dropPlan", "cleanup"}
      BY <1>1, <2>1, <2>2 DEF BeforePCs, InnerPCs
    <2>10. ap.failing => ap.pc = "cleanup"
      BY DEF PromiseInv, Running
    <2>11. Running'
      BY <1>1, <1>2, <2>2, <2>9, <2>10, RunningKept
    <2> QED BY <1>2, <2>8, <2>11 DEF PromiseInv
  <1> QED BY <1>3, <1>4 DEF Prepare

\* From terraform init to the apply: every step moves on with the evidence as
\* it is, or refuses.
LEMMA CheckKeepsPromise ==
  ASSUME NEW p \in Planners, Planners = {p}, PromiseInv(p), [Next]_vars,
         \/ ApplyInitialize \/ Recheck \/ OpenSnapshot \/ ShowSnapshot \/ Gate
         \/ RecheckDescriptor
  PROVE  PromiseInv(p)'
  <1>1. /\ TypeOK /\ UNCHANGED log /\ ap.pc \in BeforePCs \ {"prepare"} /\ ap.pc \in InnerPCs
    BY DEF ApplyInitialize, Recheck, OpenSnapshot, ShowSnapshot, Gate, RecheckDescriptor,
           PromiseInv, ApplyInv, BeforePCs, InnerPCs
  <1>2. ap \in ApplyStates /\ ap.ev \in Evidence
    BY <1>1 DEF TypeOK, ApplyStates
  <1>3. CASE Refuse
    BY <1>1, <1>3, RefuseKeepsPromise
  <1>4. ASSUME NEW pc \in BeforePCs \ {"prepare"}, AGoto(pc)
        PROVE  PromiseInv(p)'
    <2>1. pc \in ApplyPCs
      BY DEF BeforePCs, ApplyPCs
    <2> QED BY <1>1, <1>4, <2>1, AfterAGoto, MoveKeepsPromise
  <1>5. CASE AGoto("recheck") \/ AGoto("apply")
    BY <1>4, <1>5 DEF BeforePCs
  <1>6. CASE ap' = [ap EXCEPT !.k = IF @ = Len(RecheckScript) THEN 1 ELSE @ + 1,
                              !.pc = IF ap.k < Len(RecheckScript) THEN "recheck"
                                     ELSE IF ap.final THEN "fdCheck" ELSE "open"]
    <2>1. /\ ap'.pc \in {"recheck", "fdCheck", "open"} /\ ap'.i = ap.i
          /\ ap'.selected = ap.selected /\ ap'.policy = ap.policy /\ ap'.opts = ap.opts
          /\ ap'.failing = ap.failing /\ ap'.ev = ap.ev
      BY <1>2, <1>6 DEF ApplyStates
    <2>2. ap'.pc \in BeforePCs \ {"prepare"}
      BY <2>1 DEF BeforePCs
    <2> QED BY <1>1, <2>1, <2>2, MoveKeepsPromise
  <1>7. CASE \/ ap' = [ap EXCEPT !.ev.fd = TRUE, !.pc = "show"]
             \/ ap' = [ap EXCEPT !.ev.shown = ap.ev.copy.body, !.pc = "gate"]
             \/ ap' = [ap EXCEPT !.final = TRUE, !.k = 1, !.pc = "recheck"]
    <2>1. /\ ap'.pc \in {"show", "gate", "recheck"} /\ ap'.i = ap.i
          /\ ap'.selected = ap.selected /\ ap'.policy = ap.policy /\ ap'.opts = ap.opts
          /\ ap'.failing = ap.failing
          /\ ap'.ev.src = ap.ev.src /\ ap'.ev.plan = ap.ev.plan /\ ap'.ev.att = ap.ev.att
      <3>1. CASE ap' = [ap EXCEPT !.final = TRUE, !.k = 1, !.pc = "recheck"]
        BY <1>2, <3>1 DEF ApplyStates
      <3>2. ASSUME NEW ev, NEW pc \in {"show", "gate"}, ap' = [ap EXCEPT !.ev = ev, !.pc = pc],
                   ev.src = ap.ev.src, ev.plan = ap.ev.plan, ev.att = ap.ev.att
            PROVE  /\ ap'.pc \in {"show", "gate"} /\ ap'.i = ap.i
                   /\ ap'.selected = ap.selected /\ ap'.policy = ap.policy
                   /\ ap'.opts = ap.opts /\ ap'.failing = ap.failing
                   /\ ap'.ev.src = ap.ev.src /\ ap'.ev.plan = ap.ev.plan
                   /\ ap'.ev.att = ap.ev.att
        BY <1>2, <3>2 DEF ApplyStates
      <3>3. CASE ap' = [ap EXCEPT !.ev.fd = TRUE, !.pc = "show"]
        <4> DEFINE ev == [ap.ev EXCEPT !.fd = TRUE]
        <4>1. ev.src = ap.ev.src /\ ev.plan = ap.ev.plan /\ ev.att = ap.ev.att
          BY <1>2 DEF Evidence
        <4>2. ap' = [ap EXCEPT !.ev = ev, !.pc = "show"]
          BY <1>2, <3>3 DEF ApplyStates
        <4> HIDE DEF ev
        <4> QED BY <3>2, <4>1, <4>2
      <3>4. CASE ap' = [ap EXCEPT !.ev.shown = ap.ev.copy.body, !.pc = "gate"]
        <4> DEFINE ev == [ap.ev EXCEPT !.shown = ap.ev.copy.body]
        <4>1. ev.src = ap.ev.src /\ ev.plan = ap.ev.plan /\ ev.att = ap.ev.att
          BY <1>2 DEF Evidence
        <4>2. ap' = [ap EXCEPT !.ev = ev, !.pc = "gate"]
          BY <1>2, <3>4 DEF ApplyStates
        <4> HIDE DEF ev
        <4> QED BY <3>2, <4>1, <4>2
      <3> QED BY <1>7, <3>1, <3>3, <3>4
    <2>2. ap'.pc \in BeforePCs \ {"prepare"}
      BY <2>1 DEF BeforePCs
    <2> QED BY <1>1, <2>1, <2>2, MoveKeepsPromise
  <1>8. \/ Refuse \/ AGoto("recheck") \/ AGoto("apply")
        \/ ap' = [ap EXCEPT !.k = IF @ = Len(RecheckScript) THEN 1 ELSE @ + 1,
                            !.pc = IF ap.k < Len(RecheckScript) THEN "recheck"
                                   ELSE IF ap.final THEN "fdCheck" ELSE "open"]
        \/ ap' = [ap EXCEPT !.ev.fd = TRUE, !.pc = "show"]
        \/ ap' = [ap EXCEPT !.ev.shown = ap.ev.copy.body, !.pc = "gate"]
        \/ ap' = [ap EXCEPT !.final = TRUE, !.k = 1, !.pc = "recheck"]
    BY DEF ApplyInitialize, Recheck, OpenSnapshot, ShowSnapshot, Gate, RecheckDescriptor
  <1> QED BY <1>3, <1>5, <1>6, <1>7, <1>8

\* The plans of the applied root go; what is left to remove holds no plan.
LEMMA DropKeepsPromise ==
  ASSUME NEW p \in Planners, Planners = {p}, PromiseInv(p), [Next]_vars, DropApplied
  PROVE  PromiseInv(p)'
  <1>1. /\ TypeOK /\ UNCHANGED log /\ ap.pc \in DropPCs /\ ap.pc \in InnerPCs
        /\ ~ap.failing /\ aroot \in Roots /\ ap.pc \notin BeforePCs
    <2>1. /\ TypeOK /\ UNCHANGED log /\ ap.pc \in DropPCs /\ ap.pc \in InnerPCs
          /\ ap.pc # "cleanup" /\ ap.pc \notin OuterPCs /\ ap.pc \notin BeforePCs
      BY DEF DropApplied, PromiseInv, ApplyInv, DropPCs, InnerPCs, BeforePCs, OuterPCs,
             SelectPCs
    <2> QED BY <2>1, ApplyFields DEF PromiseInv, Running
  <1>2. CASE Refuse
    BY <1>1, <1>2, RefuseKeepsPromise
  <1>3. ASSUME NEW pc \in {"dropSources", "dropAttest", "cleanup"}, AGoto(pc),
               ap.pc = "dropPlan" => tfplan'[aroot] = Null
        PROVE  PromiseInv(p)'
    <2>1. ApplyInv' /\ SoleInv(p)' /\ WorldKeeps(p) /\ Logged(p)'
      BY <1>1, StepWorld, LoggedKept
    <2>2. /\ ap'.pc = pc /\ ap'.i = ap.i /\ ap'.selected = ap.selected /\ ap'.ev = ap.ev
          /\ ap'.policy = ap.policy /\ ap'.opts = ap.opts /\ ap'.failing = ap.failing
      BY <1>1, <1>3, AfterAGoto DEF ApplyPCs
    <2>3. /\ ap'.pc \in (DropPCs \ {"dropPlan"}) \cup {"cleanup"}
          /\ ap'.pc \in InnerPCs /\ ap'.pc \notin BeforePCs /\ ap'.pc # "dropPlan"
          /\ ap'.pc # "prepare" /\ ap.pc # "prepare"
      BY <1>1, <2>2 DEF DropPCs, InnerPCs, BeforePCs
    <2>4. Evident(p)'
      BY <1>1, <2>1, <2>2, <2>3, EvidentKept
    <2>5. Running'
      BY <1>1, <1>3, <2>1, <2>2, <2>3, RunningKept
    <2> QED BY <2>1, <2>4, <2>5 DEF PromiseInv
  <1>4. \/ Refuse
        \/ \E pc \in {"dropSources", "dropAttest", "cleanup"} :
             AGoto(pc) /\ (ap.pc = "dropPlan" => tfplan'[aroot] = Null)
    <2>1. tfplan' = [tfplan EXCEPT ![aroot] = Null] => tfplan'[aroot] = Null
      BY <1>1 DEF TypeOK, SPTypeOK
    <2> QED BY <2>1 DEF DropApplied
  <1> QED BY <1>2, <1>3, <1>4

\* The end of a run, or its next root: Order is injective, so no other selected
\* root lies between them.
LEMMA CleanupKeepsPromise ==
  ASSUME NEW p \in Planners, Planners = {p}, PromiseInv(p), [Next]_vars, Cleanup
  PROVE  PromiseInv(p)'
  <1>1. /\ TypeOK /\ UNCHANGED log /\ ap.pc = "cleanup" /\ ap.pc \in InnerPCs
        /\ ap.pc \notin OuterPCs
    BY DEF Cleanup, PromiseInv, ApplyInv, InnerPCs, OuterPCs, SelectPCs
  <1>2. ASSUME NEW left, NEW pc \in {"done", "failed"}, ap' = [Ended(pc) EXCEPT !.left = left]
        PROVE  PromiseInv(p)'
    <2>1. ap'.pc = pc /\ ap'.failing = FALSE
      BY <1>2 DEF Ended, ApplyIdle
    <2> QED BY <1>1, <2>1, OutsideKeepsPromise DEF InnerPCs, BeforePCs, DropPCs, SelectPCs
  <1>3. ASSUME ~ap.failing, NEW left, NEW i \in (ap.i + 1)..Len(Order),
               FirstSelected(ap.selected, ap.i + 1, i),
               ap' = [ap EXCEPT !.ev = NoEvidence, !.k = 1, !.final = FALSE,
                                !.i = i, !.left = left, !.pc = "prepare"]
        PROVE  PromiseInv(p)'
    <2>1. /\ ap'.pc = "prepare" /\ ap'.selected = ap.selected /\ ap'.i = i
          /\ ap'.k = 1 /\ ap'.ev = NoEvidence /\ ap'.failing = ap.failing
          /\ ap'.policy = ap.policy /\ ap'.opts = ap.opts
      BY <1>1, <1>3 DEF TypeOK, ApplyStates
    <2>2. ApplyInv' /\ SoleInv(p)' /\ WorldKeeps(p) /\ Logged(p)' /\ StillSaved' \subseteq StillSaved
      BY <1>1, StepWorld, LoggedKept
    <2>3. Evident(p)'
      BY <2>1 DEF Evident, NoEvidence, BeforePCs, SelectPCs, PrepareScript
    <2>4. /\ ap.failing = FALSE
          /\ LogRoots = SelectedTo(ap.i) /\ StillSaved = {}
          /\ \A n \in 1..Len(log) : TermsOf(log[n]) = [policy |-> ap.policy, opts |-> ap.opts]
          /\ \A n \in 1..Len(log) : log[n].ok
      BY <1>1, <1>3, ApplyFields DEF PromiseInv, Running
    <2>5. ap.i \in Nat /\ i \in Nat /\ i > ap.i /\ i - 1 \in Nat
      BY <1>1, <1>3, ApplyFields
    <2>6. SelectedTo(ap.i - 1)' = SelectedTo(ap.i)
      <3>1. SelectedTo(ap.i - 1)' = ap.selected \cap {Order[j] : j \in 1..(i - 1)}
        BY <2>1 DEF SelectedTo
      <3>2. \A j \in 1..(i - 1) : j \in 1..ap.i \/ Order[j] \notin ap.selected
        BY <1>3, <2>5 DEF FirstSelected
      <3>3. 1..ap.i \subseteq 1..(i - 1)
        BY <2>5
      <3> QED BY <3>1, <3>2, <3>3 DEF SelectedTo
    <2>7. LogRoots' = LogRoots
      BY <1>1 DEF LogRoots
    <2>8. aroot' \in ap'.selected
      BY <1>3, <2>1 DEF aroot, FirstSelected
    <2>9. /\ \A n \in 1..Len(log') : TermsOf(log'[n]) = [policy |-> ap'.policy, opts |-> ap'.opts]
          /\ \A n \in 1..Len(log') : log'[n].ok
      BY <1>1, <2>1, <2>4 DEF TermsOf
    <2>10. /\ ap'.failing = FALSE /\ ap'.pc \notin SelectPCs \cup DropPCs \cup {"cleanup"}
      BY <2>1, <2>4 DEF SelectPCs, DropPCs
    <2>11. Running'
      BY <2>2, <2>4, <2>6, <2>7, <2>8, <2>9, <2>10 DEF Running
    <2> QED BY <2>2, <2>3, <2>11 DEF PromiseInv
  <1> QED BY <1>1, <1>2, <1>3, CleanupWays

-----------------------------------------------------------------------------
(* The apply *)

\* What a run adds to its log: the plan of the evidence, under the terms of the
\* run, consented to and, if incomplete, for the scope it was attested with.
Adds(e) ==
    /\ e \in LogEntries
    /\ e.at = ap.i /\ e.plan = ap.ev.plan /\ e.plan # Null /\ e.src = ap.ev.src
    /\ e.policy = ap.policy /\ e.opts = ap.opts
    /\ Consented(e.plan.body, e.policy, e.opts.allowDestroy, e.opts.allowPlanChanges)
    /\ e.plan.body.complete \/ e.plan.targets = ImportingAddresses(e.plan.body)
    /\ log' = Append(log, e)
    /\ \/ ~e.ok /\ Refuse
       \/ /\ e.ok
          /\ ap'.pc = "dropPlan" /\ ap'.i = ap.i /\ ap'.selected = ap.selected
          /\ ap'.policy = ap.policy /\ ap'.opts = ap.opts /\ ap'.failing = ap.failing
          /\ ap'.ev.src = ap.ev.src /\ ap'.ev.plan = ap.ev.plan /\ ap'.ev.att = ap.ev.att

LEMMA ApplyAdds ==
  ASSUME NEW p \in Planners, PromiseInv(p), TerraformApply
  PROVE  (Refuse /\ UNCHANGED log) \/ \E e : Adds(e)
  <1>1. /\ TypeOK /\ ap.pc = "apply" /\ ap.pc \notin OuterPCs /\ ap.final /\ ApplyInv
        /\ ap \in ApplyStates /\ ap.ev \in Evidence
    BY DEF PromiseInv, ApplyInv, TypeOK, ApplyStates, Gated, TerraformApply, OuterPCs, SelectPCs
  <1> DEFINE entry(ok) == [at |-> ap.i, plan |-> AppliedPlan, policy |-> ap.policy,
                           opts |-> ap.opts, att |-> ap.ev.att, src |-> ap.ev.src,
                           unseen |-> Stale \ touched, ok |-> ok]
             After == ap' = [ap EXCEPT !.applied = @ + 1, !.ev.fd = FALSE, !.pc = "dropPlan"]
  <1>2. ASSUME NEW ok \in BOOLEAN, AppliedPlan \notin {Null, Torn},
               log' = Append(log, entry(ok)), (~ok /\ Refuse) \/ (ok /\ After)
        PROVE  Adds(entry(ok))
    <2>1. /\ ap.ev.copy = ap.ev.plan /\ ap.ev.plan \in SavedPlans /\ ap.ev.plan # Null
          /\ AppliedPlan = ap.ev.plan
          /\ ap.ev.shown = ap.ev.plan.body /\ ap.ev.plan.body \in Bodies
      BY <1>1, <1>2, ApplyFields DEF ApplyInv, SnapshotBound, Gated, SavedPlans, AppliedPlan
    <2>2. ApplyGate(ap.ev.plan.body, ap.policy, Attested(ap.ev.att),
                    ap.opts.allowDestroy, ap.opts.allowPlanChanges)
      BY <1>1, <2>1 DEF ApplyInv, Gated
    <2>3. Consented(ap.ev.plan.body, ap.policy, ap.opts.allowDestroy, ap.opts.allowPlanChanges)
      <3>1. RecordsTyped(ap.ev.plan.body)
        BY <2>1, ExactApplyAssumption DEF RecordsTyped
      <3>2. ap.opts.allowDestroy \in BOOLEAN /\ ap.opts.allowPlanChanges \in BOOLEAN
        BY <1>1, ApplyFields DEF OptionSet
      <3> QED BY <2>2, <3>1, <3>2, GatedIsConsented
    <2>4. ap.ev.plan.body.complete \/ ap.ev.plan.targets = ImportingAddresses(ap.ev.plan.body)
      <3>1. \/ ap.ev.plan.body.complete
            \/ AcceptIncompleteTargetedImportOnlyPlan(ap.ev.plan.body, Attested(ap.ev.att))
        BY <2>2 DEF ApplyGate, TypedComplete
      <3>2. CASE AcceptIncompleteTargetedImportOnlyPlan(ap.ev.plan.body, Attested(ap.ev.att))
        <4>1. /\ Attested(ap.ev.att) # Null
              /\ Attested(ap.ev.att).targets = ImportingAddresses(ap.ev.plan.body)
          BY <3>2 DEF AcceptIncompleteTargetedImportOnlyPlan
        <4>2. ap.ev.att # Null /\ Attested(ap.ev.att).targets = ap.ev.att.targets
          BY <4>1 DEF Attested
        <4>3. ap.ev.att.targets = ap.ev.plan.targets
          BY <1>1, <4>2 DEF PromiseInv, Evident, BeforePCs
        <4> QED BY <4>1, <4>2, <4>3
      <3> QED BY <3>1, <3>2
    <2>5. entry(ok) \in LogEntries
      <3>1. Stale \ touched \in SUBSET Checks
        BY DEF Stale
      <3> QED BY <1>1, <2>1, <3>1, ApplyFields DEF LogEntries
    <2>6. ASSUME ok, After
          PROVE  /\ ap'.pc = "dropPlan" /\ ap'.i = ap.i /\ ap'.selected = ap.selected
                 /\ ap'.policy = ap.policy /\ ap'.opts = ap.opts /\ ap'.failing = ap.failing
                 /\ ap'.ev.src = ap.ev.src /\ ap'.ev.plan = ap.ev.plan
                 /\ ap'.ev.att = ap.ev.att
      <3> DEFINE ev == [ap.ev EXCEPT !.fd = FALSE]
      <3>1. ev.src = ap.ev.src /\ ev.plan = ap.ev.plan /\ ev.att = ap.ev.att
        BY <1>1 DEF Evidence
      <3>2. ap' = [ap EXCEPT !.applied = ap.applied + 1, !.ev = ev, !.pc = "dropPlan"]
        BY <1>1, <2>6 DEF ApplyStates
      <3> HIDE DEF ev
      <3> QED BY <1>1, <3>1, <3>2 DEF ApplyStates
    <2>7. /\ entry(ok).at = ap.i /\ entry(ok).plan = ap.ev.plan /\ entry(ok).src = ap.ev.src
          /\ entry(ok).policy = ap.policy /\ entry(ok).opts = ap.opts /\ entry(ok).ok = ok
      BY <2>1
    <2>8. PICK e : e = entry(ok)
      OBVIOUS
    <2> HIDE DEF entry, After
    <2>9. Adds(e)
      BY <1>2, <2>1, <2>3, <2>4, <2>5, <2>6, <2>7, <2>8 DEF Adds
    <2> QED BY <2>8, <2>9
  <1>3. \/ Refuse /\ UNCHANGED log
        \/ AppliedPlan \notin {Null, Torn} /\ log' = Append(log, entry(TRUE)) /\ After
        \/ AppliedPlan \notin {Null, Torn} /\ log' = Append(log, entry(FALSE)) /\ Refuse
    BY DEF TerraformApply
  <1> HIDE DEF entry, After
  <1> QED BY <1>2, <1>3

LEMMA ApplyKeepsPromise ==
  ASSUME NEW p \in Planners, Planners = {p}, PromiseInv(p), [Next]_vars, TerraformApply
  PROVE  PromiseInv(p)'
  <1>1. /\ TypeOK /\ ap.pc = "apply" /\ ap.pc \in InnerPCs /\ ap.pc \in BeforePCs
        /\ ap.pc \notin OuterPCs /\ ~ap.failing /\ UNCHANGED spState /\ log \in Seq(LogEntries)
    BY DEF TerraformApply, PromiseInv, ApplyInv, InnerPCs, BeforePCs, OuterPCs, SelectPCs,
           Running, TypeOK
  <1>2. CASE Refuse /\ UNCHANGED log
    BY <1>1, <1>2, RefuseKeepsPromise
  <1>3. ASSUME NEW e, Adds(e)
        PROVE  PromiseInv(p)'
    <2>1. ApplyInv' /\ SoleInv(p)' /\ WorldKeeps(p)
      BY StepWorld
    <2>2. /\ ap'.pc \in {"dropPlan", "cleanup"} /\ ap'.i = ap.i /\ ap'.selected = ap.selected
          /\ ap'.policy = ap.policy /\ ap'.opts = ap.opts
          /\ ap'.ev.src = ap.ev.src /\ ap'.ev.plan = ap.ev.plan /\ ap'.ev.att = ap.ev.att
          /\ ap'.failing => ap'.pc = "cleanup"
          /\ ~ap'.failing => ap'.pc = "dropPlan" /\ e.ok
      BY <1>1, <1>3, AfterRefuse DEF Adds
    <2>3. /\ ap'.pc \in InnerPCs /\ ap'.pc \notin BeforePCs
      BY <2>2 DEF InnerPCs, BeforePCs, DropPCs
    <2>4. Evident(p)'
      BY <1>1, <2>1, <2>2, <2>3, EvidentKept
    <2>5. /\ Len(log') = Len(log) + 1 /\ Len(log) \in Nat
          /\ \A n \in 1..Len(log) : log'[n] = log[n]
          /\ log'[Len(log) + 1] = e
      BY <1>1, <1>3 DEF Adds
    <2>6. \A n \in 1..Len(log') : \/ n \in 1..Len(log) /\ log'[n] = log[n]
                                  \/ n = Len(log') /\ log'[n] = e
      BY <2>5
    <2>7. Logged(p)'
      <3>1. /\ e.at \in 1..Len(Order) /\ e.plan # Null /\ e.plan.id \in 1..plans
            /\ DeclaredBy(p, e.plan, e.src)
            /\ e.plan.body.complete \/ e.plan.targets = ImportingAddresses(e.plan.body)
        BY <1>1, <1>3, ApplyFields DEF Adds, PromiseInv, Evident, KnownPlan
      <3>2. plans' = plans /\ pl' = pl /\ churn' = churn
        BY <1>1 DEF spState
      <3>3. ASSUME NEW n \in 1..Len(log')
            PROVE  /\ log'[n].at \in 1..Len(Order) /\ log'[n].plan # Null
                   /\ log'[n].plan.id \in 1..plans'
                   /\ DeclaredBy(p, log[n].plan, log[n].src)'
                   /\ \/ log'[n].plan.body.complete
                      \/ log'[n].plan.targets = ImportingAddresses(log'[n].plan.body)
        <4>1. CASE n \in 1..Len(log) /\ log'[n] = log[n]
          BY <3>2, <4>1 DEF PromiseInv, Logged, DeclaredBy
        <4>2. CASE log'[n] = e
          BY <3>1, <3>2, <4>2 DEF DeclaredBy
        <4> QED BY <2>6, <4>1, <4>2
      <3> QED BY <3>3 DEF Logged
    <2>8. Running'
      <3>1. /\ aroot \in ap.selected
            /\ \A n \in 1..Len(log) : TermsOf(log[n]) = [policy |-> ap.policy, opts |-> ap.opts]
            /\ \A n \in 1..Len(log) : log[n].ok
            /\ LogRoots = SelectedTo(ap.i - 1) /\ StillSaved = {}
        BY <1>1 DEF PromiseInv, Running
      <3>2. aroot' = aroot /\ tfplan' = tfplan /\ ap.i \in Nat /\ ap.i >= 1
        BY <1>1, <2>2, ApplyFields DEF aroot, spState
      <3>3. \A n \in 1..Len(log') : TermsOf(log[n])' = [policy |-> ap'.policy, opts |-> ap'.opts]
        BY <1>3, <2>2, <2>6, <3>1 DEF TermsOf, Adds
      <3>4. ~ap'.failing => \A n \in 1..Len(log') : log'[n].ok
        BY <2>2, <2>6, <3>1
      <3>5. LogRoots' = LogRoots \cup {aroot}
        <4>1. Order[e.at] = aroot
          BY <1>3 DEF Adds, aroot
        <4>2. 1..Len(log') = 1..Len(log) \cup {Len(log) + 1}
          BY <2>5
        <4> QED BY <2>5, <2>6, <4>1, <4>2 DEF LogRoots
      <3>6. SelectedTo(ap.i)' = SelectedTo(ap.i - 1) \cup {aroot}
        <4>1. 1..ap.i = 1..(ap.i - 1) \cup {ap.i}
          BY <3>2
        <4>2. SelectedTo(ap.i)' = ap.selected \cap {Order[j] : j \in 1..ap.i}
          BY <2>2 DEF SelectedTo
        <4> QED BY <3>1, <4>1, <4>2 DEF SelectedTo, aroot
      <3>7. StillSaved' \subseteq {aroot}
        <4>1. \A n \in 1..Len(log) : tfplan[Order[log[n].at]] # log[n].plan
          BY <3>1 DEF StillSaved
        <4>2. Order[e.at] = aroot
          BY <1>3 DEF Adds, aroot
        <4> QED BY <2>6, <3>2, <4>1, <4>2 DEF StillSaved
      <3>8. ap'.pc \notin SelectPCs
        BY <2>2 DEF SelectPCs
      <3>9. /\ aroot' \in ap'.selected
            /\ LogRoots' = SelectedTo(ap.i)'
        BY <2>2, <3>1, <3>2, <3>5, <3>6
      <3>10. StillSaved' \subseteq (IF ap'.pc = "dropPlan" THEN {aroot} ELSE {})
             \/ ap'.failing
        BY <2>2, <3>7
      <3> QED BY <2>2, <2>3, <3>2, <3>3, <3>4, <3>8, <3>9, <3>10 DEF Running, DropPCs, SelectedTo
    <2> QED BY <2>1, <2>4, <2>7, <2>8 DEF PromiseInv
  <1> QED BY <1>2, <1>3, ApplyAdds

-----------------------------------------------------------------------------
(* The theorems *)

LEMMA PromiseInvInit ==
  ASSUME NEW p \in Planners, Planners = {p}, Init
  PROVE  PromiseInv(p)
  <1>1. ApplyInv /\ SoleInv(p)
    BY ApplyInvInit, SoleInvInit DEF Init
  <1>2. /\ ap.pc = "idle" /\ ap.k = 1 /\ ap.selected = {} /\ ap.failing = FALSE
        /\ log = <<>>
    BY DEF Init, ApplyIdle
  <1>3. Evident(p) /\ Logged(p) /\ Running
    BY <1>2 DEF Evident, Logged, Running, InnerPCs, BeforePCs, DropPCs
  <1> QED BY <1>1, <1>3 DEF PromiseInv

LEMMA PromiseInvStep ==
  ASSUME NEW p \in Planners, Planners = {p}, PromiseInv(p), [Next]_vars
  PROVE  PromiseInv(p)'
  <1>1. CASE UNCHANGED vars \/ OthersStep \/ DisturbSnapshot
             \/ (\E c \in Policies : EditPolicy(c)) \/ (\E c \in Controls : EditControls(c))
    <2>1. UNCHANGED log /\ (ap' = ap \/ DisturbSnapshot)
      BY <1>1 DEF vars, OthersStep, DisturbSnapshot, EditPolicy, EditControls
    <2> QED BY <2>1, OthersKeepPromise
  <1>2. CASE ApplyStep
    BY <1>2, LoadKeepsPromise, PrepareKeepsPromise, CheckKeepsPromise, ApplyKeepsPromise,
       DropKeepsPromise, CleanupKeepsPromise DEF ApplyStep
  <1>3. CASE ApplyCrash \/ \E opts \in Options, onMain \in BOOLEAN : StartApply(opts, onMain)
    BY <1>3, StartKeepsPromise
  <1> QED BY <1>1, <1>2, <1>3 DEF Next

\* With one planner at a time, whatever clean-plans, editors, kills and the
\* state of the private directory do: every plan applied was computed from the
\* inputs its declaration names, unless they changed away and back while that
\* very plan was made.
THEOREM AppliedIsDeclared ==
  ASSUME NEW CONSTANT p, Planners = {p}
  PROVE  Spec => []AppliedFromDeclaredInputs
  <1>1. Init => PromiseInv(p)
    BY PromiseInvInit
  <1>2. PromiseInv(p) /\ [Next]_vars => PromiseInv(p)'
    BY PromiseInvStep
  <1>3. PromiseInv(p) => AppliedFromDeclaredInputs
    <2> SUFFICES ASSUME PromiseInv(p), NEW n \in 1..Len(log)
                 PROVE  log[n].plan.from = log[n].src \/ churn[log[n].plan.id] >= 2
      BY DEF AppliedFromDeclaredInputs
    <2> QED BY DEF PromiseInv, Logged, DeclaredBy
  <1> QED BY <1>1, <1>2, <1>3, PTL DEF Spec

-----------------------------------------------------------------------------
(* The refinement *)

Outcome ==
    CASE ap.pc = "idle" -> "none" [] ap.pc \in {"done", "failed"} -> ap.pc [] OTHER -> "running"
Applied ==
    [n \in DOMAIN log |-> [root |-> Order[log[n].at], plan |-> log[n].plan,
                           terms |-> TermsOf(log[n]), ok |-> log[n].ok]]
Left == {Order[log[n].at] : n \in {m \in DOMAIN log : tfplan[Order[log[m].at]] = log[m].plan}}

\* The mapped variables, read off the log.
LEMMA MappedLog ==
  ASSUME TypeOK
  PROVE  /\ DOMAIN Applied = 1..Len(log) /\ Len(log) \in Nat
         /\ \A n \in 1..Len(log) :
              /\ Applied[n].root = Order[log[n].at] /\ Applied[n].plan = log[n].plan
              /\ Applied[n].terms = TermsOf(log[n]) /\ Applied[n].ok = log[n].ok
         /\ Left = StillSaved
  <1>1. log \in Seq(LogEntries) /\ DOMAIN log = 1..Len(log) /\ Len(log) \in Nat
    BY DEF TypeOK
  <1> QED BY <1>1 DEF Applied, Left, StillSaved

\* A step that leaves outcome, selection and log alone consumes at most.
LEMMA ConsumesAtMost ==
  ASSUME UNCHANGED <<Outcome, Applied>>, ap'.selected = ap.selected, Left' \subseteq Left
  PROVE  [Approved!Next]_(Approved!vars)
  <1>1. CASE Left' = Left
    BY <1>1 DEF Approved!vars, Outcome, Applied, Left
  <1>2. CASE Left' # Left
    <2>1. Approved!Consume
      BY <1>2 DEF Approved!Consume, Outcome, Applied, Left
    <2> QED BY <2>1 DEF Approved!Next
  <1> QED BY <1>1, <1>2

LEMMA StartBegins ==
  ASSUME TypeOK, NEW opts, NEW onMain, StartApply(opts, onMain)
  PROVE  Approved!Begin
  <1>1. Outcome # "running"
    BY DEF StartApply, Outcome
  <1>2. /\ ap'.pc \in {"policy", "failed"} /\ ap'.selected = {} /\ log' = <<>>
    BY DEF StartApply, ApplyIdle
  <1>3. Outcome' \in {"running", "failed"}
    BY <1>2 DEF Outcome
  <1>4. Applied' = <<>> /\ Left' = {}
    BY <1>2 DEF Applied, Left
  <1> QED BY <1>1, <1>2, <1>3, <1>4 DEF Approved!Begin, Outcome, Applied, Left

LEMMA CrashKills ==
  ASSUME TypeOK, ApplyCrash
  PROVE  Approved!Kill
  <1>1. Outcome = "running"
    BY DEF ApplyCrash, Outcome
  <1>2. /\ ap'.pc = "idle" /\ ap'.selected = {} /\ log' = <<>>
    BY DEF ApplyCrash, ApplyIdle
  <1>3. Outcome' = "none"
    BY <1>2 DEF Outcome
  <1>4. Applied' = <<>> /\ Left' = {}
    BY <1>2 DEF Applied, Left
  <1> QED BY <1>1, <1>2, <1>3, <1>4 DEF Approved!Kill, Outcome, Applied, Left

\* A run that selects nothing fails; otherwise the saved roots are selected.
LEMMA LoadSelects ==
  ASSUME NEW p \in Planners, PromiseInv(p),
         LoadPolicy \/ LoadInputs \/ RecheckControls \/ Materialize
  PROVE  [Approved!Next]_(Approved!vars)
  <1>1. /\ TypeOK /\ ap.pc \in SelectPCs \ {"idle"} /\ UNCHANGED log /\ UNCHANGED tfplan
    BY DEF PromiseInv, ApplyInv, LoadPolicy, LoadInputs, RecheckControls, Materialize,
           SelectPCs, spState
  <1>2. ap.selected = {} /\ Outcome = "running"
    BY <1>1 DEF PromiseInv, Running, SelectPCs, Outcome
  <1>3. UNCHANGED <<Applied, Left>>
    BY <1>1 DEF Applied, Left, TermsOf
  <1>4. ASSUME ap'.selected = ap.selected, ap'.pc \in {"controls", "bound", "materialize"}
        PROVE  [Approved!Next]_(Approved!vars)
    <2>1. Outcome' = "running"
      BY <1>4 DEF Outcome
    <2> QED BY <1>2, <1>3, <1>4, <2>1, ConsumesAtMost
  <1>5. ASSUME AGoto("failed")
        PROVE  [Approved!Next]_(Approved!vars)
    <2>1. ap'.selected = ap.selected /\ ap'.pc = "failed"
      BY <1>1, <1>5, AfterAGoto DEF ApplyPCs
    <2>2. Outcome' = "failed"
      BY <2>1 DEF Outcome
    <2>3. Approved!Fail
      BY <1>2, <1>3, <2>1, <2>2 DEF Approved!Fail, Outcome, Applied, Left
    <2> QED BY <2>3 DEF Approved!Next
  <1>6. CASE LoadPolicy \/ LoadInputs
    <2>1. ap'.selected = ap.selected /\ ap'.pc \in {"controls", "bound"}
      BY <1>1, <1>6 DEF LoadPolicy, LoadInputs, TypeOK, ApplyStates
    <2> QED BY <1>4, <2>1
  <1>7. CASE RecheckControls
    <2>1. AGoto("materialize") \/ AGoto("failed")
      BY <1>7 DEF RecheckControls
    <2>2. AGoto("materialize") => ap'.selected = ap.selected /\ ap'.pc = "materialize"
      BY <1>1, AfterAGoto DEF ApplyPCs
    <2> QED BY <1>4, <1>5, <2>1, <2>2
  <1>8. ASSUME NEW i \in 1..Len(Order), FirstSelected(SavedRoots, 1, i),
               ap' = [ap EXCEPT !.selected = SavedRoots, !.i = i, !.pc = "prepare"]
        PROVE  [Approved!Next]_(Approved!vars)
    <2>1. ap'.pc = "prepare" /\ ap'.selected = SavedRoots
      BY <1>1, <1>8 DEF TypeOK, ApplyStates
    <2>2. SavedRoots # {}
      BY <1>8 DEF FirstSelected
    <2>3. Outcome' = "running"
      BY <2>1 DEF Outcome
    <2>4. Approved!Select
      BY <1>2, <1>3, <2>1, <2>2, <2>3 DEF Approved!Select, Outcome, Applied, Left
    <2> QED BY <2>4 DEF Approved!Next
  <1> QED BY <1>5, <1>6, <1>7, <1>8 DEF Materialize

\* The roots before the current one are those the abstract specification takes
\* earlier: Order names each root once.
LEMMA EarlierRoots ==
  ASSUME NEW i \in 1..Len(Order)
  PROVE  /\ Approved!Earlier(Order[i]) = {Order[j] : j \in 1..(i - 1)}
         /\ Order[i] \notin {Order[j] : j \in 1..(i - 1)}
  <1>1. /\ DOMAIN Order = 1..Len(Order) /\ Len(Order) \in Nat
        /\ \A m, n \in 1..Len(Order) : Order[m] = Order[n] => m = n
    BY SavedPlanAssumption
  <1>2. {j \in DOMAIN Order : \E k \in DOMAIN Order : j < k /\ Order[k] = Order[i]} = 1..(i - 1)
    BY <1>1
  <1> QED BY <1>1, <1>2 DEF Approved!Earlier

LEMMA ApplyApplies ==
  ASSUME NEW p \in Planners, PromiseInv(p), TerraformApply
  PROVE  [Approved!Next]_(Approved!vars)
  <1>1. /\ TypeOK /\ ap.pc = "apply" /\ ap.pc \in InnerPCs /\ ap.pc \in BeforePCs /\ ~ap.failing
        /\ ap.pc \notin OuterPCs /\ tfplan' = tfplan
        /\ log \in Seq(LogEntries)
    BY DEF TerraformApply, PromiseInv, ApplyInv, InnerPCs, BeforePCs, OuterPCs, SelectPCs,
           Running, TypeOK, spState
  <1>2. /\ aroot \in ap.selected /\ ap.i \in 1..Len(Order)
        /\ \A n \in 1..Len(log) : TermsOf(log[n]) = [policy |-> ap.policy, opts |-> ap.opts]
        /\ \A n \in 1..Len(log) : log[n].ok
        /\ LogRoots = SelectedTo(ap.i - 1) /\ StillSaved = {}
    BY <1>1, ApplyFields DEF PromiseInv, Running
  <1>3. Outcome = "running"
    BY <1>1 DEF Outcome
  <1>4. CASE Refuse /\ UNCHANGED log
    <2>1. ap'.pc = "cleanup" /\ ap'.selected = ap.selected
      BY <1>1, <1>4, AfterRefuse
    <2>2. Outcome' = Outcome
      BY <1>3, <2>1 DEF Outcome
    <2>3. UNCHANGED <<Applied, Left>>
      BY <1>1, <1>4 DEF Applied, Left, TermsOf
    <2> QED BY <2>1, <2>2, <2>3, ConsumesAtMost
  <1>5. ASSUME NEW e, Adds(e)
        PROVE  [Approved!Next]_(Approved!vars)
    <2>1. /\ ap'.pc \in {"dropPlan", "cleanup"} /\ ap'.selected = ap.selected
      BY <1>1, <1>5, AfterRefuse DEF Adds
    <2>2. Outcome' = "running"
      BY <2>1 DEF Outcome
    <2>3. /\ Len(log') = Len(log) + 1 /\ Len(log) \in Nat /\ log' \in Seq(LogEntries)
          /\ \A n \in 1..Len(log) : log'[n] = log[n]
          /\ log'[Len(log) + 1] = e
      BY <1>1, <1>5 DEF Adds
    <2> DEFINE N == Len(log)
               E == [root |-> aroot, plan |-> e.plan, terms |-> TermsOf(e), ok |-> e.ok]
    <2>4. Applied = [n \in 1..N |-> [root |-> Order[log[n].at], plan |-> log[n].plan,
                                     terms |-> TermsOf(log[n]), ok |-> log[n].ok]]
      BY <1>1 DEF Applied
    <2>5. Applied' = [n \in 1..(N + 1) |-> [root |-> Order[log'[n].at], plan |-> log'[n].plan,
                                            terms |-> TermsOf(log'[n]), ok |-> log'[n].ok]]
      BY <2>3 DEF Applied, TermsOf
    <2>6. \A n \in 1..N : Applied'[n] = Applied[n]
      BY <2>3, <2>4, <2>5
    <2>7. Applied'[N + 1] = E
      BY <1>5, <2>3, <2>5 DEF Adds, aroot
    <2> HIDE DEF N
    <2>8. PICK S : S = {Applied'[n] : n \in 1..(N + 1)}
      OBVIOUS
    <2>9. /\ Applied \in Seq(S) /\ Applied' \in Seq(S)
          /\ Len(Applied) = N /\ Len(Applied') = N + 1 /\ N \in Nat
      BY <2>3, <2>4, <2>5, <2>6, <2>8 DEF N
    <2>10. SubSeq(Applied', 1, Len(Applied)) = Applied
      BY <2>6, <2>9
    <2>11. Approved!AllWell
      BY <1>1, <1>2, <2>4 DEF Approved!AllWell, Applied, N
    <2>12. Approved!RootsApplied = LogRoots
      BY <1>1, MappedLog DEF Approved!RootsApplied, Applied, LogRoots
    <2>13. aroot \in ap.selected \ LogRoots /\ ap.selected \cap Approved!Earlier(aroot) = LogRoots
      BY <1>2, EarlierRoots DEF SelectedTo, aroot
    <2>14. ConsentsTo(E.terms, E.plan)
      BY <1>5 DEF Adds, ConsentsTo, TermsOf
    <2>15. \A n \in DOMAIN Applied : Applied[n].terms = E.terms
      <3>1. E.terms = [policy |-> ap.policy, opts |-> ap.opts]
        BY <1>5 DEF Adds, TermsOf
      <3> HIDE DEF E
      <3> QED BY <1>1, <1>2, <3>1, MappedLog
    <2>16. Left' \subseteq Left \cup {aroot}
      <3>1. Left' = {Order[log'[n].at] : n \in {m \in 1..(N + 1) : tfplan[Order[log'[m].at]] = log'[m].plan}}
        BY <1>1, <2>3 DEF Left, N
      <3>2. Left = StillSaved
        BY <1>1, MappedLog
      <3>3. \A n \in 1..(N + 1) : \/ (n \in 1..N /\ log'[n] = log[n])
                                   \/ Order[log'[n].at] = aroot
        BY <1>5, <2>3 DEF Adds, aroot, N
      <3> QED BY <3>1, <3>2, <3>3 DEF StillSaved, N
    <2>17. Applied'[Len(Applied) + 1] = E /\ Len(Applied') = Len(Applied) + 1
      BY <2>7, <2>9
    <2>18. E.root = aroot
      OBVIOUS
    <2> HIDE DEF E
    <2>19. Approved!ApplyRoot
      BY <1>3, <2>1, <2>2, <2>10, <2>11, <2>12, <2>13, <2>14, <2>15, <2>16, <2>17, <2>18
         DEF Approved!ApplyRoot, Outcome, Applied, Left
    <2> QED BY <2>19 DEF Approved!Next
  <1> QED BY <1>4, <1>5, ApplyAdds

\* The end of a run: it succeeds with every selected root applied, none of the
\* plans left, or it fails.
LEMMA CleanupEnds ==
  ASSUME NEW p \in Planners, PromiseInv(p), Cleanup
  PROVE  [Approved!Next]_(Approved!vars)
  <1>1. /\ TypeOK /\ ap.pc = "cleanup" /\ ap.pc \in InnerPCs /\ ap.pc \notin OuterPCs
        /\ UNCHANGED log /\ tfplan' = tfplan
    BY DEF Cleanup, PromiseInv, ApplyInv, InnerPCs, OuterPCs, SelectPCs, spState
  <1>2. Outcome = "running" /\ UNCHANGED <<Applied, Left>>
    BY <1>1 DEF Outcome, Applied, Left, TermsOf
  <1>3. ASSUME NEW left, NEW pc \in {"done", "failed"}, ap' = [Ended(pc) EXCEPT !.left = left]
        PROVE  ap'.selected = ap.selected /\ Outcome' = pc
    <2>1. ap'.selected = ap.selected /\ ap'.pc = pc
      BY <1>3 DEF Ended, ApplyIdle
    <2> QED BY <2>1 DEF Outcome
  <1>4. ASSUME NEW left, ap' = [Ended("failed") EXCEPT !.left = left]
        PROVE  [Approved!Next]_(Approved!vars)
    <2>1. ap'.selected = ap.selected /\ Outcome' = "failed"
      BY <1>3, <1>4
    <2>2. Approved!Fail
      BY <1>2, <2>1 DEF Approved!Fail, Outcome, Applied, Left
    <2> QED BY <2>2 DEF Approved!Next
  <1>5. ASSUME NEW left, ~ap.failing, \A i \in (ap.i + 1)..Len(Order) : Order[i] \notin ap.selected,
               ap' = [Ended("done") EXCEPT !.left = left]
        PROVE  [Approved!Next]_(Approved!vars)
    <2>1. ap'.selected = ap.selected /\ Outcome' = "done"
      BY <1>3, <1>5
    <2>2. /\ ap.failing = FALSE /\ aroot \in ap.selected
          /\ LogRoots = SelectedTo(ap.i) /\ StillSaved = {}
          /\ \A n \in 1..Len(log) : log[n].ok
      BY <1>1, <1>5, ApplyFields DEF PromiseInv, Running
    <2>3. LogRoots = ap.selected
      <3>1. ap.selected \subseteq Roots /\ ap.i \in 1..Len(Order) /\ Len(Order) \in Nat
        BY <1>1, ApplyFields, OrderInRoots DEF TypeOK
      <3>2. \A r \in Roots : \E j \in 1..Len(Order) : r = Order[j]
        BY DEF Roots
      <3>3. \A r \in ap.selected : \E j \in 1..ap.i : r = Order[j]
        BY <1>5, <3>1, <3>2
      <3> QED BY <2>2, <3>3 DEF SelectedTo
    <2>4. Approved!AllWell /\ Approved!RootsApplied = LogRoots /\ Left = {}
      <3>1. Left = {} /\ DOMAIN Applied = 1..Len(log)
        BY <1>1, <2>2, MappedLog
      <3>2. Approved!AllWell
        BY <1>1, <2>2, <3>1, MappedLog DEF Approved!AllWell, Applied
      <3>3. Approved!RootsApplied = LogRoots
        BY <1>1, MappedLog DEF Approved!RootsApplied, Applied, LogRoots
      <3> QED BY <3>1, <3>2, <3>3
    <2>5. Approved!Succeed
      BY <1>2, <2>1, <2>2, <2>3, <2>4 DEF Approved!Succeed, Outcome, Applied, Left
    <2> QED BY <2>5 DEF Approved!Next
  <1>6. ASSUME NEW left, NEW i,
               ap' = [ap EXCEPT !.ev = NoEvidence, !.k = 1, !.final = FALSE,
                                !.i = i, !.left = left, !.pc = "prepare"]
        PROVE  [Approved!Next]_(Approved!vars)
    <2>1. ap'.selected = ap.selected /\ ap'.pc = "prepare"
      BY <1>1, <1>6 DEF TypeOK, ApplyStates
    <2>2. Outcome' = "running"
      BY <2>1 DEF Outcome
    <2> QED BY <1>2, <2>1, <2>2, ConsumesAtMost
  <1> QED BY <1>1, <1>4, <1>5, <1>6, CleanupWays

\* Every other step: the outcome, the selection and the log stay, and no applied
\* plan comes back.
LEMMA OthersConsume ==
  ASSUME NEW p \in Planners, Planners = {p}, PromiseInv(p), [Next]_vars,
         \/ UNCHANGED vars \/ OthersStep \/ DisturbSnapshot
         \/ (\E c \in Policies : EditPolicy(c)) \/ (\E c \in Controls : EditControls(c))
         \/ Prepare \/ ApplyInitialize \/ Recheck \/ OpenSnapshot \/ ShowSnapshot \/ Gate
         \/ RecheckDescriptor \/ DropApplied
  PROVE  [Approved!Next]_(Approved!vars)
  <1>1. /\ TypeOK /\ WorldKeeps(p) /\ UNCHANGED log /\ TypeOK' /\ ap \in ApplyStates
        /\ ap.ev \in Evidence
    BY StepWorld
       DEF PromiseInv, ApplyInv, TypeOK, ApplyStates, vars, OthersStep, DisturbSnapshot,
           EditPolicy, EditControls, Prepare, ApplyInitialize, Recheck, OpenSnapshot,
           ShowSnapshot, Gate, RecheckDescriptor, DropApplied
  <1>2. UNCHANGED Applied
    BY <1>1 DEF Applied, TermsOf
  <1>3. Left' \subseteq Left
    <2>1. StillSaved' \subseteq StillSaved
      BY <1>1, LoggedKept
    <2>2. StillSaved' = Left'
      BY <1>1 DEF StillSaved, Left, TypeOK
    <2> QED BY <1>1, <2>1, <2>2, MappedLog
  <1>4. ap'.selected = ap.selected /\ Outcome' = Outcome
    <2>1. CASE UNCHANGED ap
      BY <2>1 DEF Outcome
    <2>2. CASE DisturbSnapshot
      <3>1. ap'.selected = ap.selected /\ ap'.pc = ap.pc
        BY <1>1, <2>2 DEF DisturbSnapshot, ApplyStates
      <3> QED BY <3>1 DEF Outcome
    <2>3. ASSUME ap'.selected = ap.selected, ap.pc \notin {"idle", "done", "failed"},
                 ap'.pc \notin {"idle", "done", "failed"}
          PROVE  ap'.selected = ap.selected /\ Outcome' = Outcome
      BY <2>3 DEF Outcome
    <2>4. CASE Refuse /\ ap.pc \notin {"idle", "done", "failed"}
      BY <1>1, <2>3, <2>4, AfterRefuse
    <2>5. CASE \/ Prepare \/ ApplyInitialize \/ Recheck \/ OpenSnapshot \/ ShowSnapshot \/ Gate
               \/ RecheckDescriptor \/ DropApplied
      <3>1. ap.pc \notin {"idle", "done", "failed"}
        BY <2>5 DEF Prepare, ApplyInitialize, Recheck, OpenSnapshot, ShowSnapshot, Gate,
                    RecheckDescriptor, DropApplied
      <3>2. Refuse \/ (ap'.selected = ap.selected /\ ap'.pc \notin {"idle", "done", "failed"})
        <4>1. CASE Prepare
          BY <1>1, <4>1 DEF Prepare, ApplyStates
        <4>2. CASE ApplyInitialize \/ RecheckDescriptor \/ DropApplied
          BY <1>1, <4>2, AfterAGoto
             DEF ApplyInitialize, RecheckDescriptor, DropApplied, ApplyPCs
        <4>3. CASE Recheck
          BY <1>1, <4>3 DEF Recheck, ApplyStates
        <4>4. CASE OpenSnapshot \/ ShowSnapshot \/ Gate
          BY <1>1, <4>4 DEF OpenSnapshot, ShowSnapshot, Gate, ApplyStates
        <4> QED BY <2>5, <4>1, <4>2, <4>3, <4>4
      <3> QED BY <2>3, <2>4, <3>1, <3>2
    <2> QED BY <2>1, <2>2, <2>5 DEF vars, OthersStep, EditPolicy, EditControls
  <1> QED BY <1>2, <1>3, <1>4, ConsumesAtMost

\* Apply keeps the promise of ApprovedApply, with one planner at a time: every
\* step of the run, and of everybody else, is a step of the promise or changes
\* nothing it is about.
THEOREM ApplyKeepsItsPromise ==
  ASSUME NEW CONSTANT p, Planners = {p}
  PROVE  Spec => ImplementsApprovedApply
  <1>1. Init => PromiseInv(p) /\ Approved!Init
    <2>1. Init => PromiseInv(p)
      BY PromiseInvInit
    <2>2. ASSUME Init
          PROVE  Outcome = "none" /\ ap.selected = {} /\ Applied = <<>> /\ Left = {}
      BY <2>2 DEF Init, ApplyIdle, Outcome, Applied, Left
    <2> QED BY <2>1, <2>2 DEF Approved!Init, Outcome, Applied, Left
  <1>2. PromiseInv(p) /\ [Next]_vars => PromiseInv(p)'
    BY PromiseInvStep
  <1>3. ASSUME PromiseInv(p), [Next]_vars
        PROVE  [Approved!Next]_(Approved!vars)
    <2>1. TypeOK
      BY <1>3 DEF PromiseInv, ApplyInv
    <2>2. CASE \E opts \in Options, onMain \in BOOLEAN : StartApply(opts, onMain)
      BY <2>1, <2>2, StartBegins DEF Approved!Next
    <2>3. CASE ApplyCrash
      BY <2>1, <2>3, CrashKills DEF Approved!Next
    <2>4. CASE LoadPolicy \/ LoadInputs \/ RecheckControls \/ Materialize
      BY <1>3, <2>4, LoadSelects
    <2>5. CASE TerraformApply
      BY <1>3, <2>5, ApplyApplies
    <2>6. CASE Cleanup
      BY <1>3, <2>6, CleanupEnds
    <2>7. CASE \/ UNCHANGED vars \/ OthersStep \/ DisturbSnapshot
               \/ (\E c \in Policies : EditPolicy(c)) \/ (\E c \in Controls : EditControls(c))
               \/ Prepare \/ ApplyInitialize \/ Recheck \/ OpenSnapshot \/ ShowSnapshot \/ Gate
               \/ RecheckDescriptor \/ DropApplied
      BY <1>3, <2>7, OthersConsume
    <2> QED BY <1>3, <2>2, <2>3, <2>4, <2>5, <2>6, <2>7 DEF Next, ApplyStep
  <1> QED BY <1>1, <1>2, <1>3, PTL DEF Spec, ImplementsApprovedApply, Approved!Spec
=============================================================================
